---------------------------- MODULE Spec2Model ----------------------------
(***************************************************************************)
(* A model of the content pipeline of the portfolio template                *)
(* (src/scripts/build-data.cjs): the CSV tokenizer parseCSVLine, the table  *)
(* reader parseCSV / readCSV, the coercions toBoolean / toNumber, the join  *)
(* and normalisation done by buildData, and the four writeFileSync calls    *)
(* that persist the documents.                                              *)
(*                                                                          *)
(* Text is a sequence of one-character strings, so that scanning, trimming  *)
(* and splitting are computed character by character as the code does.      *)
(***************************************************************************)
EXTENDS Integers, Sequences, FiniteSets, TLC

VARIABLES
    line,       \* parseCSVLine: the line being tokenized
    scan,       \* parseCSVLine: its locals [i, current, inQuotes, result]
    tokOut,     \* parseCSVLine: running, returned (with fields) or thrown
    csvLines,   \* parseCSV: the raw lines of the table file
    eol,        \* parseCSV: the line terminator of the table file
    parseOut,   \* parseCSV: pending, returned (with records) or thrown
    files,      \* buildData: the nine source tables on disk
    outputDir,  \* buildData: whether the data directory exists
    pc,         \* buildData: position of each invocation
    tables,     \* buildData: the parsed tables of each invocation
    docs,       \* buildData: the four documents built by each invocation
    wfile,      \* buildData: index of the document being written
    buffer,     \* buildData: the serialization being written, in chunks
    wpos,       \* buildData: chunks of it already written
    prior,      \* what the output location held when the invocation began
    disk,       \* the four persisted documents, each a sequence of chunks
    arg,        \* toBoolean, toNumber: the value passed
    fallbackArg, \* toNumber: the fallback passed, if one is
    ret,        \* toBoolean, toNumber: pending, or the function and what it returned
    site,       \* database service: the imported projects and case-studies documents
    query,      \* database service: the id passed to a lookup
    found,      \* database service: pending, or the lookup and what it returned
    currentPage,        \* App: the page rendered
    currentFocusAreaId, \* App: the focus area shown on the focus-area page
    currentProjectId,   \* App: the project shown on the detail page, or null
    history,    \* window.history: the URL parameters of each entry
    histPos,    \* window.history: the index of the current entry
    expandedImage, \* SplunkDetail / FocusAreaDetail: the expanded image, or null
    mounted,    \* App: whether its effects have run
    event       \* the browser event handled last

tokVars == <<line, scan, tokOut>>
parseVars == <<csvLines, eol, parseOut>>
buildVars == <<files, outputDir, pc, tables, docs, wfile, buffer, wpos, prior, disk>>
coerceVars == <<arg, fallbackArg, ret>>
lookupVars == <<site, query, found>>
appVars == <<currentPage, currentFocusAreaId, currentProjectId, history, histPos,
             expandedImage, mounted, event>>
vars == <<line, scan, tokOut, csvLines, eol, parseOut,
          files, outputDir, pc, tables, docs, wfile, buffer, wpos, prior, disk,
          arg, fallbackArg, ret, site, query, found,
          currentPage, currentFocusAreaId, currentProjectId, history, histPos,
          expandedImage, mounted, event>>

-----------------------------------------------------------------------------
(* Bounds of the model. *)

\* Longest line enumerated for the tokenizer.
MaxLineLen == 5
\* Most data lines of a table enumerated for the table reader.
MaxDataLines == 3
\* Most rows of the projects table enumerated for the join.
MaxProjectRows == 2
\* Most rows of the case-study-sections table enumerated for the join.
MaxSectionRows == 2
\* Most rows of the project-details table enumerated for the join.
MaxDetailRows == 2
\* Most rows of the focus-areas table enumerated for the join.
MaxFocusAreaRows == 2
\* Most rows of the focus-area-sections table enumerated for the join.
MaxFocusSectionRows == 2
\* Longest string over the numeral alphabet passed to toBoolean and toNumber.
MaxNumeralLen == 3
\* Most rows of a resume table enumerated for the resume document.
MaxResumeRows == 2
\* Most entries of the browser's session history.
MaxHistory == 3

-----------------------------------------------------------------------------
(* Characters and strings. *)

DQ == "\""
COMMA == ","
NL == "\n"
CR == "\r"

\* The characters String.prototype.trim removes (those the model's texts use).
WhiteSpace == {" ", "\t", "\n", "\r"}

Min(S) == CHOOSE x \in S : \A y \in S : x <= y
Max(S) == CHOOSE x \in S : \A y \in S : x >= y

Range(s) == {s[k] : k \in 1..Len(s)}

\* String.prototype.trim
Trim(s) ==
    LET keep == {k \in 1..Len(s) : s[k] \notin WhiteSpace}
    IN  IF keep = {} THEN <<>> ELSE SubSeq(s, Min(keep), Max(keep))

\* All sequences over S of length at most n.
RECURSIVE SeqsUpTo(_, _)
SeqsUpTo(S, n) ==
    IF n = 0 THEN {<<>>}
    ELSE LET shorter == SeqsUpTo(S, n - 1)
         IN  shorter \cup {Append(s, x) : s \in {t \in shorter : Len(t) = n - 1}, x \in S}

\* Array.prototype.join: the strings of ss with sep between them.
RECURSIVE Join(_, _)
Join(ss, sep) ==
    IF ss = <<>> THEN <<>>
    ELSE IF Len(ss) = 1 THEN ss[1]
    ELSE ss[1] \o sep \o Join(Tail(ss), sep)

-----------------------------------------------------------------------------
(* parseCSVLine *)

\* The locals of parseCSVLine before its loop; i is the 0-based index of the code.
ScanInit == [i |-> 0, current |-> <<>>, inQuotes |-> FALSE, result |-> <<>>]

\* ScanChar with the delimiter test forgetting quote-mode.
ScanCharSplitsInQuotes(ln, st) ==
    LET char == ln[st.i + 1]
        next == IF st.i + 1 < Len(ln) THEN ln[st.i + 2] ELSE ""
    IN  IF char = DQ
        THEN IF st.inQuotes /\ next = DQ
             THEN [st EXCEPT !.current = Append(@, DQ), !.i = @ + 2]
             ELSE [st EXCEPT !.inQuotes = ~@, !.i = @ + 1]
        ELSE IF char = COMMA
             THEN [st EXCEPT !.result = Append(@, Trim(st.current)),
                             !.current = <<>>, !.i = @ + 1]
             ELSE [st EXCEPT !.current = Append(@, char), !.i = @ + 1]

\* ScanChar without the escaped-quote branch: every quote toggles.
ScanCharNoEscape(ln, st) ==
    LET char == ln[st.i + 1]
    IN  IF char = DQ
        THEN [st EXCEPT !.inQuotes = ~@, !.i = @ + 1]
        ELSE IF char = COMMA /\ ~st.inQuotes
             THEN [st EXCEPT !.result = Append(@, Trim(st.current)),
                             !.current = <<>>, !.i = @ + 1]
             ELSE [st EXCEPT !.current = Append(@, char), !.i = @ + 1]

\* One iteration of the for loop, the loop's own i++ included.
ScanChar(ln, st) ==
    LET char == ln[st.i + 1]
        next == IF st.i + 1 < Len(ln) THEN ln[st.i + 2] ELSE ""
    IN  IF char = DQ
        THEN IF st.inQuotes /\ next = DQ
             THEN [st EXCEPT !.current = Append(@, DQ), !.i = @ + 2]
             ELSE [st EXCEPT !.inQuotes = ~@, !.i = @ + 1]
        ELSE IF char = COMMA /\ ~st.inQuotes
             THEN [st EXCEPT !.result = Append(@, Trim(st.current)),
                             !.current = <<>>, !.i = @ + 1]
             ELSE [st EXCEPT !.current = Append(@, char), !.i = @ + 1]

\* The whole loop.
RECURSIVE ScanLine(_, _)
ScanLine(ln, st) ==
    IF st.i < Len(ln) THEN ScanLine(ln, ScanChar(ln, st)) ELSE st

\* ScanEnd without the flush of an empty last field.
ScanEndDropsEmptyLast(st) ==
    IF st.inQuotes
    THEN [ok |-> FALSE, fields |-> <<>>]
    ELSE [ok |-> TRUE,
          fields |-> IF Trim(st.current) = <<>> THEN st.result
                     ELSE Append(st.result, Trim(st.current))]

\* What follows the loop: the throw on an open quote, or the flush of the last field.
ScanEnd(st) ==
    IF st.inQuotes
    THEN [ok |-> FALSE, fields |-> <<>>]
    ELSE [ok |-> TRUE, fields |-> Append(st.result, Trim(st.current))]

parseCSVLine(ln) == ScanEnd(ScanLine(ln, ScanInit))

-----------------------------------------------------------------------------
(* parseCSV *)

StripCR(s) ==
    IF Len(s) > 0 /\ s[Len(s)] = CR THEN SubSeq(s, 1, Len(s) - 1) ELSE s

\* csvText.split(/\r?\n/), from the 1-based position s on.
RECURSIVE SplitFrom(_, _)
SplitFrom(text, s) ==
    LET nls == {k \in s..Len(text) : text[k] = NL}
    IN  IF nls = {} THEN <<SubSeq(text, s, Len(text))>>
        ELSE <<StripCR(SubSeq(text, s, Min(nls) - 1))>> \o SplitFrom(text, Min(nls) + 1)

\* .split(/\r?\n/).map((l) => l.trim()).filter((l) => l.length > 0)
NonEmptyLines(text) ==
    LET split == SplitFrom(text, 1)
        trimmed == [k \in 1..Len(split) |-> Trim(split[k])]
    IN  SelectSeq(trimmed, LAMBDA l : Len(l) > 0)

\* headers.forEach((header, index) => { record[header] = fields[index] ?? "" })
\* A header that occurs twice keeps the value assigned last.
\* MakeRecord leaving out the columns the line has no field for.
MakeRecordOnlyPresent(headers, fields) ==
    [h \in {headers[k] : k \in 1..Min({Len(headers), Len(fields)})} |->
        fields[Max({k \in 1..Min({Len(headers), Len(fields)}) : headers[k] = h})]]

\* MakeRecord keeping the first column of a repeated name instead of the last.
MakeRecordFirstWins(headers, fields) ==
    [h \in Range(headers) |->
        LET index == Min({k \in 1..Len(headers) : headers[k] = h})
        IN  IF index <= Len(fields) THEN fields[index] ELSE <<>>]

\* The record the forEach over the headers builds: assignments in header order,
\* a later assignment to the same name replacing the earlier one.
MakeRecord(headers, fields) ==
    [h \in Range(headers) |->
        LET index == Max({k \in 1..Len(headers) : headers[k] = h})
        IN  IF index <= Len(fields) THEN fields[index] ELSE <<>>]

\* ParseRows giving up at the first line that raises.
RECURSIVE ParseRowsStopAtError(_, _, _, _)
ParseRowsStopAtError(headers, lines, k, records) ==
    IF k > Len(lines) THEN records
    ELSE LET row == parseCSVLine(lines[k])
         IN  IF row.ok
             THEN ParseRowsStopAtError(headers, lines, k + 1,
                                       Append(records, MakeRecord(headers, row.fields)))
             ELSE records

\* The for loop over the data lines, from the 1-based position k on.
RECURSIVE ParseRows(_, _, _, _)
ParseRows(headers, lines, k, records) ==
    IF k > Len(lines) THEN records
    ELSE LET row == parseCSVLine(lines[k])
         IN  ParseRows(headers, lines, k + 1,
                       IF row.ok THEN Append(records, MakeRecord(headers, row.fields))
                       ELSE records)

\* threw: the header line raised, outside the try block of the loop.
parseCSV(csvText) ==
    LET lines == NonEmptyLines(csvText)
    IN  IF Len(lines) = 0 THEN [threw |-> FALSE, records |-> <<>>]
        ELSE LET header == parseCSVLine(lines[1])
             IN  IF ~header.ok THEN [threw |-> TRUE, records |-> <<>>]
                 ELSE [threw |-> FALSE,
                       records |-> ParseRows(header.fields, lines, 2, <<>>)]

-----------------------------------------------------------------------------
(* JavaScript values.  A value is a record with one field naming its type;  *)
(* an object is a record of such values under its property names.           *)

Undefined == [undefined |-> TRUE]
JNull == [null |-> TRUE]
JStr(s) == [string |-> s]
JNum(n) == [number |-> n]
JBool(b) == [boolean |-> b]
JArr(a) == [array |-> a]

IsStr(v) == DOMAIN v = {"string"}

\* row.key, for a record that parseCSV returned
Get(row, key) == IF key \in DOMAIN row THEN JStr(row[key]) ELSE Undefined

\* Truthiness of the values a row's properties have: undefined, null or a string.
Truthy(v) == IsStr(v) /\ v.string # <<>>

\* a || b
Or(a, b) == IF Truthy(a) THEN a ELSE b

\* a ?? b
Nullish(a, b) == IF a = Undefined \/ a = JNull THEN b ELSE a

\* The column names the code reads.
K_id == <<"i", "d">>
K_title == <<"t", "i", "t", "l", "e">>
K_subtitle == <<"s", "u", "b", "t", "i", "t", "l", "e">>
K_description == <<"d", "e", "s", "c", "r", "i", "p", "t", "i", "o", "n">>
K_reversed == <<"r", "e", "v", "e", "r", "s", "e", "d">>
K_hasDetailPage == <<"h", "a", "s", "D", "e", "t", "a", "i", "l", "P", "a", "g", "e">>
K_display_order == <<"d", "i", "s", "p", "l", "a", "y", "_", "o", "r", "d", "e", "r">>
K_displayOrder == <<"d", "i", "s", "p", "l", "a", "y", "O", "r", "d", "e", "r">>
K_password == <<"p", "a", "s", "s", "w", "o", "r", "d">>
K_image == <<"i", "m", "a", "g", "e">>
K_image_url == <<"i", "m", "a", "g", "e", "_", "u", "r", "l">>
K_project_id == <<"p", "r", "o", "j", "e", "c", "t", "_", "i", "d">>
K_projectId == <<"p", "r", "o", "j", "e", "c", "t", "I", "d">>
K_text == <<"t", "e", "x", "t">>
K_section_title == <<"s", "e", "c", "t", "i", "o", "n", "_", "t", "i", "t", "l", "e">>
K_sectionTitle == <<"s", "e", "c", "t", "i", "o", "n", "T", "i", "t", "l", "e">>
K_section_order == <<"s", "e", "c", "t", "i", "o", "n", "_", "o", "r", "d", "e", "r">>
K_sectionOrder == <<"s", "e", "c", "t", "i", "o", "n", "O", "r", "d", "e", "r">>
K_detail_order == <<"d", "e", "t", "a", "i", "l", "_", "o", "r", "d", "e", "r">>
K_detailOrder == <<"d", "e", "t", "a", "i", "l", "O", "r", "d", "e", "r">>
K_heading == <<"h", "e", "a", "d", "i", "n", "g">>
K_case_study_link == <<"c", "a", "s", "e", "_", "s", "t", "u", "d", "y", "_", "l", "i", "n", "k">>
K_caseStudyLink == <<"c", "a", "s", "e", "S", "t", "u", "d", "y", "L", "i", "n", "k">>
K_focus_area_id == <<"f", "o", "c", "u", "s", "_", "a", "r", "e", "a", "_", "i", "d">>
\* The camelCase spelling of focus_area_id; the code reads no such column.
K_focusAreaId == <<"f", "o", "c", "u", "s", "A", "r", "e", "a", "I", "d">>
K_company == <<"c", "o", "m", "p", "a", "n", "y">>
K_location == <<"l", "o", "c", "a", "t", "i", "o", "n">>
K_start_date == <<"s", "t", "a", "r", "t", "_", "d", "a", "t", "e">>
K_end_date == <<"e", "n", "d", "_", "d", "a", "t", "e">>
K_role == <<"r", "o", "l", "e">>
K_school == <<"s", "c", "h", "o", "o", "l">>
K_degree == <<"d", "e", "g", "r", "e", "e">>
K_details == <<"d", "e", "t", "a", "i", "l", "s">>
K_category == <<"c", "a", "t", "e", "g", "o", "r", "y">>
K_items == <<"i", "t", "e", "m", "s">>

-----------------------------------------------------------------------------
(* toBoolean and toNumber *)

UpperLetters == <<"A", "B", "C", "D", "E", "F", "G", "H", "I", "J", "K", "L", "M",
                  "N", "O", "P", "Q", "R", "S", "T", "U", "V", "W", "X", "Y", "Z">>
LowerLetters == <<"a", "b", "c", "d", "e", "f", "g", "h", "i", "j", "k", "l", "m",
                  "n", "o", "p", "q", "r", "s", "t", "u", "v", "w", "x", "y", "z">>

\* String.prototype.toLowerCase, on the letters A to Z
ToLowerCase(s) ==
    [k \in 1..Len(s) |->
        IF \E u \in 1..Len(UpperLetters) : UpperLetters[u] = s[k]
        THEN LowerLetters[CHOOSE u \in 1..Len(UpperLetters) : UpperLetters[u] = s[k]]
        ELSE s[k]]

\* toBoolean comparing without toLowerCase.
toBooleanCaseSensitive(value) ==
    IF DOMAIN value = {"boolean"} THEN value.boolean
    ELSE IF ~IsStr(value) THEN FALSE
    ELSE LET v == Trim(value.string)
         IN  \/ v = <<"t", "r", "u", "e">>
             \/ v = <<"1">>
             \/ v = <<"y", "e", "s">>

toBoolean(value) ==
    IF DOMAIN value = {"boolean"} THEN value.boolean
    ELSE IF ~IsStr(value) THEN FALSE
    ELSE LET v == ToLowerCase(Trim(value.string))
         IN  \/ v = <<"t", "r", "u", "e">>
             \/ v = <<"1">>
             \/ v = <<"y", "e", "s">>

Digits == <<"0", "1", "2", "3", "4", "5", "6", "7", "8", "9">>

IsDigit(c) == \E d \in 1..Len(Digits) : Digits[d] = c

DigitValue(c) == (CHOOSE d \in 1..Len(Digits) : Digits[d] = c) - 1

RECURSIVE DigitsValue(_)
DigitsValue(s) ==
    IF s = <<>> THEN 0
    ELSE 10 * DigitsValue(SubSeq(s, 1, Len(s) - 1)) + DigitValue(s[Len(s)])

\* Number(value) of a string: blank is 0, an optionally signed run of decimal
\* digits is its value, and every other string over the letters, digits and
\* signs of the model's tables is NaN (the model's tables hold no fraction,
\* exponent, radix prefix or "Infinity").
Number(s) ==
    LET t == Trim(s)
        body == IF t # <<>> /\ t[1] \in {"-", "+"} THEN Tail(t) ELSE t
    IN  IF t = <<>> THEN [finite |-> TRUE, value |-> 0]
        ELSE IF body # <<>> /\ \A k \in 1..Len(body) : IsDigit(body[k])
        THEN [finite |-> TRUE,
              value |-> IF t[1] = "-" THEN 0 - DigitsValue(body) ELSE DigitsValue(body)]
        ELSE [finite |-> FALSE, value |-> 0]

\* toNumber returning 0 where it should return the fallback.
toNumberFallbackZero(value, fb) ==
    IF value = Undefined \/ value = JNull \/ value = JStr(<<>>) THEN 0
    ELSE LET n == Number(value.string)
         IN  IF n.finite THEN n.value ELSE 0

\* function toNumber(value, fallback = 0)
DefaultFallback == 0

toNumber(value, fallback) ==
    IF value = Undefined \/ value = JNull \/ value = JStr(<<>>) THEN fallback
    ELSE LET n == Number(value.string)
         IN  IF n.finite THEN n.value ELSE fallback

-----------------------------------------------------------------------------
(* Array.prototype.sort with a comparator (a, b) => key(a) - key(b): stable *)
(* (ECMAScript 2019), ascending by key.                                     *)

\* The indices 1..k of keys, ordered by key, equal keys in index order.
RECURSIVE SortedIndices(_, _)
SortedIndices(keys, k) ==
    IF k = 0 THEN <<>>
    ELSE LET sorted == SortedIndices(keys, k - 1)
             before == SelectSeq(sorted, LAMBDA j : keys[j] <= keys[k])
             after == SelectSeq(sorted, LAMBDA j : keys[j] > keys[k])
         IN  before \o <<k>> \o after

\* s sorted by the keys given for its elements.
SortByKeys(s, keys) ==
    LET perm == SortedIndices(keys, Len(s))
    IN  [k \in 1..Len(s) |-> s[perm[k]]]

-----------------------------------------------------------------------------
(* buildData: the join.  The operators take the parsed tables, a record     *)
(* with one sequence of rows per source table.                              *)

\* (cs.project_id || cs.projectId || "").trim()
ForeignKey(cs) ==
    Trim(Or(Or(Get(cs, K_project_id), Get(cs, K_projectId)), JStr(<<>>)).string)

\* The object the reduce pushes for one case-study-section row.
SectionOf(cs) ==
    [image |-> Get(cs, K_image_url),
     text |-> Get(cs, K_text),
     sectionTitle |-> Or(Or(Get(cs, K_section_title), Get(cs, K_sectionTitle)), JNull),
     order |-> JNum(toNumber(Nullish(Get(cs, K_section_order), Get(cs, K_sectionOrder)), 0))]

\* GroupSections overwriting the entry of an id instead of extending it.
RECURSIVE GroupSectionsKeepLast(_, _, _)
GroupSectionsKeepLast(rows, k, acc) ==
    IF k > Len(rows) THEN acc
    ELSE LET id == ForeignKey(rows[k])
             at == {j \in 1..Len(acc) : acc[j].id = id}
         IN  IF id = <<>> THEN GroupSectionsKeepLast(rows, k + 1, acc)
             ELSE IF at = {}
             THEN GroupSectionsKeepLast(rows, k + 1,
                      Append(acc, [id |-> id, sections |-> <<SectionOf(rows[k])>>]))
             ELSE GroupSectionsKeepLast(rows, k + 1,
                      [acc EXCEPT ![CHOOSE j \in at : TRUE].sections =
                                      <<SectionOf(rows[k])>>])

\* The reduce that builds caseStudyById, from row k on: a Map in insertion
\* order, here a sequence of [id, sections].
RECURSIVE GroupSections(_, _, _)
GroupSections(rows, k, acc) ==
    IF k > Len(rows) THEN acc
    ELSE LET id == ForeignKey(rows[k])
             at == {j \in 1..Len(acc) : acc[j].id = id}
         IN  IF id = <<>> THEN GroupSections(rows, k + 1, acc)
             ELSE IF at = {}
             THEN GroupSections(rows, k + 1,
                      Append(acc, [id |-> id, sections |-> <<SectionOf(rows[k])>>]))
             ELSE GroupSections(rows, k + 1,
                      [acc EXCEPT ![CHOOSE j \in at : TRUE].sections =
                                      Append(@, SectionOf(rows[k]))])

caseStudyById(t) == GroupSections(t.caseStudySections, 1, <<>>)

\* caseStudyById.get(id) || []
SectionsFor(byId, id) ==
    IF \E j \in 1..Len(byId) : byId[j].id = id
    THEN byId[CHOOSE j \in 1..Len(byId) : byId[j].id = id].sections
    ELSE <<>>

\* SortAndStrip without the sort: the sections in the order they were pushed.
StripWithoutSort(sections) ==
    [k \in 1..Len(sections) |->
        [image |-> sections[k].image,
         text |-> sections[k].text,
         sectionTitle |-> sections[k].sectionTitle]]

\* .sort((a, b) => a.order - b.order).map(({ order, ...rest }) => rest)
SortAndStrip(sections) ==
    LET sorted == SortByKeys(sections, [k \in 1..Len(sections) |-> sections[k].order.number])
    IN  [k \in 1..Len(sorted) |->
            [image |-> sorted[k].image,
             text |-> sorted[k].text,
             sectionTitle |-> sorted[k].sectionTitle]]

\* DetailsOf without the sort: the matching rows in table order.
DetailsOfUnsorted(projectDetails, id) ==
    LET sorted == SelectSeq(projectDetails, LAMBDA d : Get(d, K_project_id) = JStr(id))
    IN  [k \in 1..Len(sorted) |->
            [heading |-> Get(sorted[k], K_heading),
             text |-> Get(sorted[k], K_text),
             image |-> Or(Or(Get(sorted[k], K_image), Get(sorted[k], K_image_url)), JStr(<<>>)),
             caseStudyLink |-> Or(Or(Get(sorted[k], K_case_study_link),
                                     Get(sorted[k], K_caseStudyLink)), JStr(<<>>)),
             password |-> Or(Get(sorted[k], K_password), JStr(<<>>))]]

\* The details of the project with the given (trimmed) id.
DetailsOf(projectDetails, id) ==
    LET matching == SelectSeq(projectDetails, LAMBDA d : Get(d, K_project_id) = JStr(id))
        sorted == SortByKeys(matching,
                      [k \in 1..Len(matching) |->
                          toNumber(Nullish(Get(matching[k], K_detail_order),
                                           Get(matching[k], K_detailOrder)), 0)])
    IN  [k \in 1..Len(sorted) |->
            [heading |-> Get(sorted[k], K_heading),
             text |-> Get(sorted[k], K_text),
             image |-> Or(Or(Get(sorted[k], K_image), Get(sorted[k], K_image_url)), JStr(<<>>)),
             caseStudyLink |-> Or(Or(Get(sorted[k], K_case_study_link),
                                     Get(sorted[k], K_caseStudyLink)), JStr(<<>>)),
             password |-> Or(Get(sorted[k], K_password), JStr(<<>>))]]

\* (project.id || "").trim()
ProjectId(project) == Trim(Or(Get(project, K_id), JStr(<<>>)).string)

\* ProjectOf putting the primary image in the gallery even when it is empty.
ProjectOfAlwaysOneImage(project, t, byId) ==
    LET id == ProjectId(project)
        primaryImage == Or(Or(Get(project, K_image), Get(project, K_image_url)), JStr(<<>>))
    IN  [id |-> JStr(id),
         title |-> Get(project, K_title),
         subtitle |-> Get(project, K_subtitle),
         description |-> Get(project, K_description),
         reversed |-> JBool(toBoolean(Get(project, K_reversed))),
         hasDetailPage |-> JBool(toBoolean(Get(project, K_hasDetailPage))),
         details |-> JArr(DetailsOf(t.projectDetails, id)),
         image |-> primaryImage,
         images |-> JArr(<<primaryImage>>),
         caseStudy |-> JArr(SortAndStrip(SectionsFor(byId, id))),
         displayOrder |-> JNum(toNumber(Nullish(Get(project, K_display_order),
                                                Get(project, K_displayOrder)), 0)),
         password |-> Or(Get(project, K_password), JStr(<<>>))]

\* The object the map over the projects table returns for one row.
ProjectOf(project, t, byId) ==
    LET id == ProjectId(project)
        primaryImage == Or(Or(Get(project, K_image), Get(project, K_image_url)), JStr(<<>>))
    IN  [id |-> JStr(id),
         title |-> Get(project, K_title),
         subtitle |-> Get(project, K_subtitle),
         description |-> Get(project, K_description),
         reversed |-> JBool(toBoolean(Get(project, K_reversed))),
         hasDetailPage |-> JBool(toBoolean(Get(project, K_hasDetailPage))),
         details |-> JArr(DetailsOf(t.projectDetails, id)),
         image |-> primaryImage,
         images |-> JArr(IF Truthy(primaryImage) THEN <<primaryImage>> ELSE <<>>),
         caseStudy |-> JArr(SortAndStrip(SectionsFor(byId, id))),
         displayOrder |-> JNum(toNumber(Nullish(Get(project, K_display_order),
                                                Get(project, K_displayOrder)), 0)),
         password |-> Or(Get(project, K_password), JStr(<<>>))]

\* projectsData with the final sort descending.
projectsDataDescending(t) ==
    LET byId == caseStudyById(t)
        mapped == [k \in 1..Len(t.projects) |-> ProjectOf(t.projects[k], t, byId)]
    IN  SortByKeys(mapped, [k \in 1..Len(mapped) |-> 0 - mapped[k].displayOrder.number])

projectsData(t) ==
    LET byId == caseStudyById(t)
        mapped == [k \in 1..Len(t.projects) |-> ProjectOf(t.projects[k], t, byId)]
    IN  SortByKeys(mapped, [k \in 1..Len(mapped) |-> mapped[k].displayOrder.number])

\* caseStudyOnly without the filter on the projects' ids.
caseStudyOnlyKeepsProjects(t) ==
    LET orphans == caseStudyById(t)
    IN  [k \in 1..Len(orphans) |->
            [id |-> JStr(orphans[k].id),
             caseStudy |-> JArr(SortAndStrip(orphans[k].sections))]]

\* The groups of caseStudyById whose id is no project's id.
caseStudyOnly(t) ==
    LET projs == projectsData(t)
        orphans == SelectSeq(caseStudyById(t),
                       LAMBDA e : ~\E k \in 1..Len(projs) : projs[k].id = JStr(e.id))
    IN  [k \in 1..Len(orphans) |->
            [id |-> JStr(orphans[k].id),
             caseStudy |-> JArr(SortAndStrip(orphans[k].sections))]]

\* The sections of the focus area with the given id (fa.id, not trimmed, and
\* undefined when the table has no id column).
FocusSectionsOf(focusAreaSections, id) ==
    LET matching == SelectSeq(focusAreaSections, LAMBDA s : Get(s, K_focus_area_id) = id)
        sorted == SortByKeys(matching,
                      [k \in 1..Len(matching) |->
                          toNumber(Nullish(Get(matching[k], K_section_order),
                                           Get(matching[k], K_sectionOrder)), 0)])
    IN  [k \in 1..Len(sorted) |->
            [image |-> Get(sorted[k], K_image_url),
             text |-> Get(sorted[k], K_text),
             sectionTitle |-> Or(Or(Get(sorted[k], K_section_title),
                                    Get(sorted[k], K_sectionTitle)), JNull)]]

\* focusAreasData without the final sort.
focusAreasDataUnsorted(t) ==
    LET mapped == [k \in 1..Len(t.focusAreas) |->
                     LET fa == t.focusAreas[k]
                     IN  [id |-> Get(fa, K_id),
                          title |-> Get(fa, K_title),
                          subtitle |-> Get(fa, K_subtitle),
                          description |-> Get(fa, K_description),
                          sections |-> JArr(FocusSectionsOf(t.focusAreaSections, Get(fa, K_id))),
                          displayOrder |-> JNum(toNumber(Nullish(Get(fa, K_display_order),
                                                                 Get(fa, K_displayOrder)), 0)),
                          password |-> Or(Get(fa, K_password), JStr(<<>>))]]
    IN  mapped

focusAreasData(t) ==
    LET mapped == [k \in 1..Len(t.focusAreas) |->
                     LET fa == t.focusAreas[k]
                     IN  [id |-> Get(fa, K_id),
                          title |-> Get(fa, K_title),
                          subtitle |-> Get(fa, K_subtitle),
                          description |-> Get(fa, K_description),
                          sections |-> JArr(FocusSectionsOf(t.focusAreaSections, Get(fa, K_id))),
                          displayOrder |-> JNum(toNumber(Nullish(Get(fa, K_display_order),
                                                                 Get(fa, K_displayOrder)), 0)),
                          password |-> Or(Get(fa, K_password), JStr(<<>>))]]
    IN  SortByKeys(mapped, [k \in 1..Len(mapped) |-> mapped[k].displayOrder.number])

\* SortByDisplayOrder leaving the rows in table order.
SortByDisplayOrderKeepsTableOrder(rows) == rows

\* rows.sort by display_order ?? displayOrder
SortByDisplayOrder(rows) ==
    SortByKeys(rows, [k \in 1..Len(rows) |->
                        toNumber(Nullish(Get(rows[k], K_display_order),
                                         Get(rows[k], K_displayOrder)), 0)])

\* resumeData taking the last row of the resume-header table.
resumeDataHeaderOfLastRow(t) ==
    LET experience == SortByDisplayOrder(t.resumeExperience)
        education == SortByDisplayOrder(t.resumeEducation)
        skills == SortByDisplayOrder(t.resumeSkills)
    IN  [header |-> IF Len(t.resumeHeader) > 0
                    THEN [record |-> t.resumeHeader[Len(t.resumeHeader)]]
                    ELSE [record |-> <<>>],
         experience |-> JArr([k \in 1..Len(experience) |->
                                [company |-> Get(experience[k], K_company),
                                 location |-> Get(experience[k], K_location),
                                 startDate |-> Get(experience[k], K_start_date),
                                 endDate |-> Get(experience[k], K_end_date),
                                 role |-> Get(experience[k], K_role),
                                 description |-> Get(experience[k], K_description)]]),
         education |-> JArr([k \in 1..Len(education) |->
                                [school |-> Get(education[k], K_school),
                                 location |-> Get(education[k], K_location),
                                 startDate |-> Get(education[k], K_start_date),
                                 endDate |-> Get(education[k], K_end_date),
                                 degree |-> Get(education[k], K_degree),
                                 details |-> Get(education[k], K_details)]]),
         skills |-> JArr([k \in 1..Len(skills) |->
                                [category |-> Get(skills[k], K_category),
                                 items |-> Get(skills[k], K_items)]])]

\* The header is a row as parseCSV returned it, kept under "record".
resumeData(t) ==
    LET experience == SortByDisplayOrder(t.resumeExperience)
        education == SortByDisplayOrder(t.resumeEducation)
        skills == SortByDisplayOrder(t.resumeSkills)
    IN  [header |-> IF Len(t.resumeHeader) > 0 THEN [record |-> t.resumeHeader[1]]
                    ELSE [record |-> <<>>],
         experience |-> JArr([k \in 1..Len(experience) |->
                                [company |-> Get(experience[k], K_company),
                                 location |-> Get(experience[k], K_location),
                                 startDate |-> Get(experience[k], K_start_date),
                                 endDate |-> Get(experience[k], K_end_date),
                                 role |-> Get(experience[k], K_role),
                                 description |-> Get(experience[k], K_description)]]),
         education |-> JArr([k \in 1..Len(education) |->
                                [school |-> Get(education[k], K_school),
                                 location |-> Get(education[k], K_location),
                                 startDate |-> Get(education[k], K_start_date),
                                 endDate |-> Get(education[k], K_end_date),
                                 degree |-> Get(education[k], K_degree),
                                 details |-> Get(education[k], K_details)]]),
         skills |-> JArr([k \in 1..Len(skills) |->
                                [category |-> Get(skills[k], K_category),
                                 items |-> Get(skills[k], K_items)]])]

-----------------------------------------------------------------------------
(* JSON.stringify and the persisted file. *)

ScalarTags == {"string", "number", "boolean", "null", "record"}

\* JSON.stringify(value, null, 2) as the value it denotes: a property whose
\* value is undefined is left out, everything else is kept.  (The order of the
\* properties and the indentation are fixed by the code and not modelled.)
RECURSIVE Stringify(_)
Stringify(v) ==
    IF DOMAIN v = {"array"}
    THEN [array |-> [k \in 1..Len(v.array) |-> Stringify(v.array[k])]]
    ELSE IF Cardinality(DOMAIN v) = 1 /\ DOMAIN v \subseteq ScalarTags THEN v
    ELSE [m \in {n \in DOMAIN v : v[n] # Undefined} |-> Stringify(v[m])]

\* The text of a serialization as the chunks it is written in: one chunk per
\* entry of the list and a closing chunk (for the resume, a chunk with the
\* header, one per entry of its three lists and a closing chunk).
FileChunks(json) ==
    LET entries(a) == [k \in 1..Len(a) |-> [entry |-> a[k]]]
    IN  IF DOMAIN json = {"array"} THEN entries(json.array) \o <<[close |-> TRUE]>>
        ELSE <<[header |-> json.header]>> \o entries(json.experience.array)
             \o entries(json.education.array) \o entries(json.skills.array)
             \o <<[close |-> TRUE]>>

\* A chunk of a file that was never written (a hole left by a write past the end).
Hole == [hole |-> TRUE]

\* The output documents, in the order buildData writes them.
DocNames == <<"projects.json", "focus-areas.json", "resume.json", "case-studies.json">>

NoDocs == [projects |-> Undefined, focusAreas |-> Undefined,
           resume |-> Undefined, caseStudies |-> Undefined]

\* The value buildData passes to JSON.stringify for the w-th file.
DocValue(d, w) ==
    CASE w = 1 -> d.projects
      [] w = 2 -> d.focusAreas
      [] w = 3 -> d.resume
      [] w = 4 -> d.caseStudies

\* The four documents of the parsed tables t.
BuildAll(t) ==
    [projects |-> JArr(projectsData(t)),
     focusAreas |-> JArr(focusAreasData(t)),
     resume |-> resumeData(t),
     caseStudies |-> JArr(caseStudyOnly(t))]

AbsentFile == [exists |-> FALSE, data |-> <<>>]

\* The output location after a complete run that built the documents d.
Persisted(d) ==
    [w \in 1..Len(DocNames) |-> [exists |-> TRUE, data |-> FileChunks(Stringify(DocValue(d, w)))]]

-----------------------------------------------------------------------------
(* Values the variables of one component hold while another is specified. *)

CoerceIdle ==
    /\ arg = [undefined |-> TRUE]
    /\ fallbackArg = [given |-> FALSE]
    /\ ret = [fn |-> "idle"]

LookupIdle ==
    /\ site = <<>>
    /\ query = [undefined |-> TRUE]
    /\ found = [fn |-> "idle"]

AppIdle ==
    /\ currentPage = "home"
    /\ currentFocusAreaId = [string |-> <<>>]
    /\ currentProjectId = [null |-> TRUE]
    /\ history = <<>>
    /\ histPos = 0
    /\ expandedImage = [null |-> TRUE]
    /\ mounted = FALSE
    /\ event = [type |-> "none"]

Procs == {1, 2}

TokIdle ==
    /\ line = <<>>
    /\ scan = ScanInit
    /\ tokOut = [state |-> "idle", fields |-> <<>>]

ParseIdle ==
    /\ csvLines = <<>>
    /\ eol = <<NL>>
    /\ parseOut = [state |-> "idle", records |-> <<>>]

BuildIdle ==
    /\ files = <<>>
    /\ outputDir = FALSE
    /\ pc = [p \in Procs |-> "idle"]
    /\ tables = [p \in Procs |-> <<>>]
    /\ docs = [p \in Procs |-> <<>>]
    /\ wfile = [p \in Procs |-> 0]
    /\ buffer = [p \in Procs |-> <<>>]
    /\ wpos = [p \in Procs |-> 0]
    /\ prior = [p \in Procs |-> <<>>]
    /\ disk = <<>>

-----------------------------------------------------------------------------
(* The tokenizer on its own: parseCSVLine applied to every short line over  *)
(* a four-character alphabet, and to the two lines the documentation gives. *)

TokAlphabet == {"a", COMMA, DQ, " "}

\* a,"b,c",d
ExampleComma == <<"a", COMMA, DQ, "b", COMMA, "c", DQ, COMMA, "d">>
\* a,"b""c",d
ExampleEscape == <<"a", COMMA, DQ, "b", DQ, DQ, "c", DQ, COMMA, "d">>

TokLines == SeqsUpTo(TokAlphabet, MaxLineLen) \cup {ExampleComma, ExampleEscape}

TokInit ==
    /\ line \in TokLines
    /\ scan = ScanInit
    /\ tokOut = [state |-> "running", fields |-> <<>>]
    /\ ParseIdle
    /\ BuildIdle
    /\ CoerceIdle
    /\ LookupIdle
    /\ AppIdle

\* One iteration of the loop of parseCSVLine.
TokStep ==
    /\ tokOut.state = "running"
    /\ scan.i < Len(line)
    /\ scan' = ScanChar(line, scan)
    /\ UNCHANGED <<line, tokOut, parseVars, buildVars, coerceVars, lookupVars, appVars>>

\* The end of the loop: parseCSVLine throws or returns.
TokEnd ==
    /\ tokOut.state = "running"
    /\ scan.i >= Len(line)
    /\ tokOut' = LET r == ScanEnd(scan)
                 IN  [state |-> IF r.ok THEN "returned" ELSE "thrown",
                      fields |-> r.fields]
    /\ UNCHANGED <<line, scan, parseVars, buildVars, coerceVars, lookupVars, appVars>>

TokNext == TokStep \/ TokEnd

SpecTok == TokInit /\ [][TokNext]_vars

-----------------------------------------------------------------------------
(* toBoolean and toNumber on their own: one call of either, on a string, on *)
(* a missing value (undefined or null) or on a value of another type.       *)

\* Spellings next to the ones toBoolean accepts.
BooleanWords ==
    { <<"t", "r", "u", "e">>,
      <<"T", "R", "U", "E">>,
      <<"T", "r", "u", "e">>,
      <<"t", "R", "u", "E">>,
      <<"1">>,
      <<"y", "e", "s">>,
      <<"Y", "E", "S">>,
      <<"Y", "e", "s">>,
      <<" ", "y", "e", "s", " ">>,
      <<"t", "r", "u", "e", " ">>,
      <<"f", "a", "l", "s", "e">>,
      <<"n", "o">>,
      <<"2">>,
      <<"0">>,
      <<"y">>,
      <<"t", "r", "u">>,
      <<"y", "e", "s", "s">>,
      <<"t", "r", "u", "e", "e">>,
      <<"1", "1">>,
      <<"o", "n">> }

NumeralAlphabet == {"1", "0", "-", " ", "x"}

CoerceStrings == BooleanWords \cup SeqsUpTo(NumeralAlphabet, MaxNumeralLen)

CoerceArgs ==
    {JStr(w) : w \in CoerceStrings}
    \cup {Undefined, JNull, JBool(TRUE), JBool(FALSE), JNum(0), JNum(1)}

\* The fallbacks a call of toNumber passes, or none.
Fallbacks == {[given |-> FALSE], [given |-> TRUE, value |-> 0], [given |-> TRUE, value |-> 7]}

CoerceInit ==
    /\ arg \in CoerceArgs
    /\ fallbackArg \in Fallbacks
    /\ ret = [fn |-> "pending"]
    /\ TokIdle
    /\ ParseIdle
    /\ BuildIdle
    /\ LookupIdle
    /\ AppIdle

\* toBoolean(arg)
CallToBoolean ==
    /\ ret.fn = "pending"
    /\ ~fallbackArg.given
    /\ ret' = [fn |-> "toBoolean", value |-> toBoolean(arg)]
    /\ UNCHANGED <<arg, fallbackArg, tokVars, parseVars, buildVars, lookupVars, appVars>>

\* toNumber(arg) or toNumber(arg, fallback), on a string or a missing value
CallToNumber ==
    /\ ret.fn = "pending"
    /\ IsStr(arg) \/ arg = Undefined \/ arg = JNull
    /\ ret' = [fn |-> "toNumber",
               value |-> toNumber(arg, IF fallbackArg.given THEN fallbackArg.value
                                       ELSE DefaultFallback)]
    /\ UNCHANGED <<arg, fallbackArg, tokVars, parseVars, buildVars, lookupVars, appVars>>

CoerceNext == CallToBoolean \/ CallToNumber

SpecCoerce == CoerceInit /\ [][CoerceNext]_vars

-----------------------------------------------------------------------------
(* The table reader on its own: parseCSV applied to table files made of a   *)
(* header line and data lines drawn from a pool that holds well-formed      *)
(* lines, blank lines and lines with an unterminated quote.                 *)

HeaderPool ==
    { <<"h", COMMA, "k">>,          \* h,k
      <<"h">>,                      \* h
      <<"h", COMMA, "h">>,          \* h,h   (a column name twice)
      <<DQ, "h", COMMA, "k">> }     \* "h,k   (unterminated)

DataPool ==
    { <<"a", COMMA, "b">>,                          \* a,b
      <<DQ, "a">>,                                  \* "a     (unterminated)
      <<"a", DQ>>,                                  \* a"     (unterminated)
      <<>>,                                         \* blank
      <<" ", "c", " ">>,                            \* c with blanks around
      <<DQ, "x", COMMA, "y", DQ, COMMA, "z">> }     \* "x,y",z

ParseInit ==
    /\ csvLines \in {<<>>} \cup
          {<<h>> \o ds : h \in HeaderPool, ds \in SeqsUpTo(DataPool, MaxDataLines)}
    /\ eol \in {<<NL>>, <<CR, NL>>}
    /\ parseOut = [state |-> "pending", records |-> <<>>]
    /\ TokIdle
    /\ BuildIdle
    /\ CoerceIdle
    /\ LookupIdle
    /\ AppIdle

\* parseCSV(csvText, filename)
ParseTable ==
    /\ parseOut.state = "pending"
    /\ parseOut' = LET r == parseCSV(Join(csvLines, eol))
                   IN  [state |-> IF r.threw THEN "thrown" ELSE "returned",
                        records |-> r.records]
    /\ UNCHANGED <<csvLines, eol, tokVars, buildVars, coerceVars, lookupVars, appVars>>

ParseNext == ParseTable

SpecParse == ParseInit /\ [][ParseNext]_vars

-----------------------------------------------------------------------------
(* buildData and the top-level try/catch, as steps of an invocation p.      *)

\* The source tables, in the order buildData reads them.
TableFiles ==
    [projects |-> "projects.csv",
     projectDetails |-> "project_details.csv",
     caseStudySections |-> "case_study_sections.csv",
     focusAreas |-> "focus_areas.csv",
     focusAreaSections |-> "focus_area_sections.csv",
     resumeHeader |-> "resume_header.csv",
     resumeExperience |-> "resume_experience.csv",
     resumeEducation |-> "resume_education.csv",
     resumeSkills |-> "resume_skills.csv"]

NoTables == [t \in DOMAIN TableFiles |-> <<>>]

MissingFile == [exists |-> FALSE, text |-> <<>>]

\* A table file with no text, and one with blank lines only.
EmptyFile == [exists |-> TRUE, text |-> <<>>]
BlankFile == [exists |-> TRUE, text |-> <<" ", NL, CR, NL, " ">>]

\* A table file with the given lines.
TextFile(header, rows) == [exists |-> TRUE, text |-> Join(<<header>> \o rows, <<NL>>)]

\* readCSV without the existsSync test: reading a missing file raises.
readCSVThrowsOnMissing(src, filename) ==
    IF ~src[filename].exists THEN [threw |-> TRUE, records |-> <<>>]
    ELSE parseCSV(src[filename].text)

\* readCSV(filename) on the source directory src
readCSV(src, filename) ==
    IF ~src[filename].exists THEN [threw |-> FALSE, records |-> <<>>]
    ELSE parseCSV(src[filename].text)

\* The nine readCSV calls of buildData.
ReadAll(src) == [t \in DOMAIN TableFiles |-> readCSV(src, TableFiles[t])]

\* ReadCSVs removing the documents of earlier runs before it reads.
ReadCSVsCleansOutput(p) ==
    /\ pc[p] = "start"
    /\ LET r == ReadAll(files)
       IN  IF \E t \in DOMAIN r : r[t].threw
           THEN /\ pc' = [pc EXCEPT ![p] = "exit1"]
                /\ UNCHANGED tables
           ELSE /\ pc' = [pc EXCEPT ![p] = "join"]
                /\ tables' = [tables EXCEPT ![p] = [t \in DOMAIN r |-> r[t].records]]
    /\ disk' = [w \in 1..Len(DocNames) |-> AbsentFile]
    /\ UNCHANGED <<files, outputDir, docs, wfile, buffer, wpos, prior, tokVars, parseVars, coerceVars, lookupVars, appVars>>

\* The first lines of buildData: the tables are read; an error that parseCSV
\* lets through ends the invocation in the catch block, with process.exit(1).
ReadCSVs(p) ==
    /\ pc[p] = "start"
    /\ LET r == ReadAll(files)
       IN  IF \E t \in DOMAIN r : r[t].threw
           THEN /\ pc' = [pc EXCEPT ![p] = "exit1"]
                /\ UNCHANGED tables
           ELSE /\ pc' = [pc EXCEPT ![p] = "join"]
                /\ tables' = [tables EXCEPT ![p] = [t \in DOMAIN r |-> r[t].records]]
    /\ UNCHANGED <<files, outputDir, docs, wfile, buffer, wpos, prior, disk, tokVars, parseVars, coerceVars, lookupVars, appVars>>

\* caseStudyById, projectsData, caseStudyOnly and focusAreasData are built.
JoinTables(p) ==
    /\ pc[p] = "join"
    /\ docs' = [docs EXCEPT ![p] = [BuildAll(tables[p]) EXCEPT !.resume = Undefined]]
    /\ pc' = [pc EXCEPT ![p] = "mkdir"]
    /\ UNCHANGED <<files, outputDir, tables, wfile, buffer, wpos, prior, disk, tokVars, parseVars, coerceVars, lookupVars, appVars>>

\* if (!fs.existsSync(outputDir)) fs.mkdirSync(outputDir, { recursive: true })
EnsureOutputDir(p) ==
    /\ pc[p] = "mkdir"
    /\ outputDir' = TRUE
    /\ pc' = [pc EXCEPT ![p] = "resume"]
    /\ UNCHANGED <<files, tables, docs, wfile, buffer, wpos, prior, disk, tokVars, parseVars, coerceVars, lookupVars, appVars>>

\* resumeData is built; the first writeFileSync is next.
BuildResume(p) ==
    /\ pc[p] = "resume"
    /\ docs' = [docs EXCEPT ![p].resume = resumeData(tables[p])]
    /\ wfile' = [wfile EXCEPT ![p] = 1]
    /\ wpos' = [wpos EXCEPT ![p] = 0]
    /\ pc' = [pc EXCEPT ![p] = "open"]
    /\ UNCHANGED <<files, outputDir, tables, buffer, prior, disk, tokVars, parseVars, coerceVars, lookupVars, appVars>>

\* Opening with a flag that keeps the file's content.
OpenedFileKeepsContent(file) == [exists |-> TRUE, data |-> file.data]

\* The file after fs.writeFileSync has opened it: flag "w" creates or truncates.
OpenedFile(file) == [exists |-> TRUE, data |-> <<>>]

\* JSON.stringify of the w-th document, then writeFileSync opens its file.
OpenDoc(p) ==
    /\ pc[p] = "open"
    /\ buffer' = [buffer EXCEPT ![p] = FileChunks(Stringify(DocValue(docs[p], wfile[p])))]
    /\ disk' = [disk EXCEPT ![wfile[p]] = OpenedFile(@)]
    /\ pc' = [pc EXCEPT ![p] = "write"]
    /\ UNCHANGED <<files, outputDir, tables, docs, wfile, wpos, prior, tokVars, parseVars, coerceVars, lookupVars, appVars>>

\* data with chunk c at position k, holes between the old end and k.
PutChunk(data, k, c) ==
    IF k <= Len(data) THEN [data EXCEPT ![k] = c]
    ELSE data \o [j \in 1..(k - 1 - Len(data)) |-> Hole] \o <<c>>

\* writeFileSync writes the next chunk of the serialization at its own file
\* position; after the last chunk it closes the file and returns, and buildData
\* goes on to the next document or to its end.
WriteChunk(p) ==
    /\ pc[p] = "write"
    /\ LET w == wfile[p]
           k == wpos[p] + 1
       IN  /\ disk' = [disk EXCEPT ![w].data = PutChunk(@, k, buffer[p][k])]
           /\ IF k < Len(buffer[p])
              THEN /\ wpos' = [wpos EXCEPT ![p] = k]
                   /\ UNCHANGED <<pc, wfile>>
              ELSE /\ wpos' = [wpos EXCEPT ![p] = 0]
                   /\ wfile' = [wfile EXCEPT ![p] = IF w < Len(DocNames) THEN w + 1 ELSE w]
                   /\ pc' = [pc EXCEPT ![p] = IF w < Len(DocNames) THEN "open" ELSE "done"]
    /\ UNCHANGED <<files, outputDir, tables, docs, buffer, prior, tokVars, parseVars, coerceVars, lookupVars, appVars>>

\* writeFileSync throws (the open or a write fails): the catch block reports
\* the error and calls process.exit(1).
WriteFails(p) ==
    /\ pc[p] \in {"open", "write"}
    /\ pc' = [pc EXCEPT ![p] = "exit1"]
    /\ UNCHANGED <<files, outputDir, tables, docs, wfile, buffer, wpos, prior, disk, tokVars, parseVars, coerceVars, lookupVars, appVars>>

\* The script is run again.
Restart(p) ==
    /\ pc[p] \in {"done", "exit1"}
    /\ pc' = [pc EXCEPT ![p] = "start"]
    /\ tables' = [tables EXCEPT ![p] = NoTables]
    /\ docs' = [docs EXCEPT ![p] = NoDocs]
    /\ wfile' = [wfile EXCEPT ![p] = 0]
    /\ buffer' = [buffer EXCEPT ![p] = <<>>]
    /\ wpos' = [wpos EXCEPT ![p] = 0]
    /\ prior' = [prior EXCEPT ![p] = disk]
    /\ UNCHANGED <<files, outputDir, disk, tokVars, parseVars, coerceVars, lookupVars, appVars>>

\* A step of an invocation on a file system that does not fail.
Step(p) ==
    \/ ReadCSVs(p)
    \/ JoinTables(p)
    \/ EnsureOutputDir(p)
    \/ BuildResume(p)
    \/ OpenDoc(p)
    \/ WriteChunk(p)

-----------------------------------------------------------------------------
(* The source tables the invocations are run on. *)

\* f1,f2,...
Csv(fields) == Join(fields, <<COMMA>>)

ProjectsHeader == Csv(<<K_id, K_display_order>>)
ProjectsHeaderCamel == Csv(<<K_id, K_displayOrder>>)
\* "id,display_order   (unterminated)
ProjectsHeaderOpenQuote == <<DQ>> \o ProjectsHeader
SectionsHeader == Csv(<<K_project_id, K_section_order, K_text>>)
SectionsHeaderCamel == Csv(<<K_projectId, K_sectionOrder, K_text>>)

\* Rows id,display_order
ProjectRowPool ==
    { <<"a", COMMA, "2">>,     \* a,2
      <<"b", COMMA, "1">>,     \* b,1
      <<"c", COMMA>>,          \* c,    (empty order)
      <<"d", COMMA, "x">> }    \* d,x   (order not a number)

\* Rows project_id,section_order,text; the text tells the rows apart.
SectionRowPool ==
    { <<"a", COMMA, "1", COMMA, "s">>,     \* a,1,s
      <<"z", COMMA, "2", COMMA, "t">>,     \* z,2,t
      <<COMMA, "1", COMMA, "u">>,          \* ,1,u   (empty foreign key)
      <<"z", COMMA, COMMA, "v">>,          \* z,,v   (empty order)
      <<"z", COMMA, "x", COMMA, "w">> }    \* z,x,w  (order not a number)

\* a,2 | b,1 | c,
ExampleProjectRows == << <<"a", COMMA, "2">>, <<"b", COMMA, "1">>, <<"c", COMMA>> >>
\* a,2 | "b,1 | c,    (the second line unterminated)
OpenQuoteProjectRows == << <<"a", COMMA, "2">>, <<DQ, "b", COMMA, "1">>, <<"c", COMMA>> >>

\* id,image,image_url and the rows a,p,q | b,,q | c,,
ImagesHeader == Csv(<<K_id, K_image, K_image_url>>)
ImageProjectRows ==
    << <<"a", COMMA, "p", COMMA, "q">>, <<"b", COMMA, COMMA, "q">>, <<"c", COMMA, COMMA>> >>

ProjectFiles ==
    {TextFile(ProjectsHeader, rows) : rows \in SeqsUpTo(ProjectRowPool, MaxProjectRows)}
    \cup { TextFile(ProjectsHeader, ExampleProjectRows),
           TextFile(ProjectsHeaderCamel, ExampleProjectRows),
           TextFile(ProjectsHeader, OpenQuoteProjectRows),
           TextFile(ProjectsHeaderOpenQuote, ExampleProjectRows),
           TextFile(K_id, << <<"b">>, <<"a">> >>),
           TextFile(ImagesHeader, ImageProjectRows),
           TextFile(Csv(<<K_id, K_image_url>>), << <<"a", COMMA, "q">>, <<"b", COMMA>> >>),
           MissingFile, EmptyFile, BlankFile }

\* A few projects tables, to go with every case-study-sections table.
FewProjectFiles ==
    { TextFile(ProjectsHeader, ExampleProjectRows),
      TextFile(ProjectsHeader, << <<"a", COMMA, "2">> >>),
      MissingFile }

SectionFiles ==
    {TextFile(SectionsHeader, rows) : rows \in SeqsUpTo(SectionRowPool, MaxSectionRows)}
    \cup { TextFile(SectionsHeaderCamel, << <<"z", COMMA, "2", COMMA, "t">>,
                                            <<"a", COMMA, "1", COMMA, "s">> >>),
           MissingFile, EmptyFile, BlankFile }

\* A few case-study-sections tables, to go with every projects table.
FewSectionFiles ==
    { TextFile(SectionsHeader, << <<"a", COMMA, "1", COMMA, "s">>,
                                  <<"z", COMMA, "2", COMMA, "t">> >>),
      MissingFile }

\* The other seven tables, the same in every run of the model.
OtherFiles ==
    [project_details |->
        TextFile(Csv(<<K_project_id, K_detail_order, K_heading>>),
                 << <<"a", COMMA, "2", COMMA, "h">>,      \* a,2,h
                    <<"a", COMMA, "1", COMMA, "g">>,      \* a,1,g
                    <<"q", COMMA, "1", COMMA, "k">> >>),  \* q,1,k
     focus_areas |->
        TextFile(Csv(<<K_id, K_display_order, K_title>>),
                 << <<"f", COMMA, "2", COMMA, "x">>,      \* f,2,x
                    <<"e", COMMA, "1", COMMA, "y">> >>),  \* e,1,y
     focus_area_sections |->
        TextFile(Csv(<<K_focus_area_id, K_section_order, K_text>>),
                 << <<"f", COMMA, "2", COMMA, "w">>,      \* f,2,w
                    <<"f", COMMA, "1", COMMA, "r">> >>),  \* f,1,r
     resume_header |->
        TextFile(<<"n", "a", "m", "e">>, << <<"n">> >>),
     resume_experience |->
        TextFile(Csv(<<K_company, K_display_order>>),
                 << <<"m", COMMA, "2">>,                  \* m,2
                    <<"l", COMMA, "1">> >>),              \* l,1
     resume_education |->
        TextFile(Csv(<<K_school, K_display_order>>), << <<"s", COMMA, "1">> >>),
     resume_skills |->
        TextFile(Csv(<<K_category, K_items, K_display_order>>),
                 << <<"k", COMMA, "i", COMMA, "1">> >>)]

\* The source directory with the given projects and case-study-section tables.
SourceDir(projectsFile, sectionsFile) ==
    [f \in {TableFiles[t] : t \in DOMAIN TableFiles} |->
        CASE f = "projects.csv" -> projectsFile
          [] f = "project_details.csv" -> OtherFiles.project_details
          [] f = "case_study_sections.csv" -> sectionsFile
          [] f = "focus_areas.csv" -> OtherFiles.focus_areas
          [] f = "focus_area_sections.csv" -> OtherFiles.focus_area_sections
          [] f = "resume_header.csv" -> OtherFiles.resume_header
          [] f = "resume_experience.csv" -> OtherFiles.resume_experience
          [] f = "resume_education.csv" -> OtherFiles.resume_education
          [] f = "resume_skills.csv" -> OtherFiles.resume_skills]

\* Rows project_id,detail_order,heading; the heading tells the rows apart.
DetailRowPool ==
    { <<"a", COMMA, "2", COMMA, "h">>,     \* a,2,h
      <<"a", COMMA, "1", COMMA, "g">>,     \* a,1,g
      <<"a", COMMA, COMMA, "j">>,          \* a,,j   (empty order)
      <<"a", COMMA, "x", COMMA, "m">>,     \* a,x,m  (order not a number)
      <<"q", COMMA, "1", COMMA, "k">> }    \* q,1,k  (no such project)

DetailsHeader == Csv(<<K_project_id, K_detail_order, K_heading>>)

DetailFiles ==
    {TextFile(DetailsHeader, rows) : rows \in SeqsUpTo(DetailRowPool, MaxDetailRows)}
    \cup { TextFile(Csv(<<K_projectId, K_detail_order, K_heading>>),
                    << <<"a", COMMA, "1", COMMA, "g">> >>),
           TextFile(Csv(<<K_project_id, K_detailOrder, K_heading>>),
                    << <<"a", COMMA, "2", COMMA, "h">>, <<"a", COMMA, "1", COMMA, "g">> >>),
           MissingFile }

\* Rows id,display_order,title
FocusAreaRowPool ==
    { <<"f", COMMA, "2", COMMA, "x">>,     \* f,2,x
      <<"e", COMMA, "1", COMMA, "y">>,     \* e,1,y
      <<"g", COMMA, COMMA, "z">>,          \* g,,z   (empty order)
      <<"d", COMMA, "x", COMMA, "v">> }    \* d,x,v  (order not a number)

FocusAreasHeader == Csv(<<K_id, K_display_order, K_title>>)

FocusAreaFiles ==
    {TextFile(FocusAreasHeader, rows) : rows \in SeqsUpTo(FocusAreaRowPool, MaxFocusAreaRows)}
    \cup { TextFile(Csv(<<K_id, K_displayOrder, K_title>>),
                    << <<"f", COMMA, "2", COMMA, "x">>, <<"e", COMMA, "1", COMMA, "y">> >>),
           MissingFile }

\* Rows focus_area_id,section_order,text; the text tells the rows apart.
FocusSectionRowPool ==
    { <<"f", COMMA, "2", COMMA, "w">>,     \* f,2,w
      <<"f", COMMA, "1", COMMA, "r">>,     \* f,1,r
      <<"f", COMMA, COMMA, "p">>,          \* f,,p   (empty order)
      <<"f", COMMA, "x", COMMA, "o">>,     \* f,x,o  (order not a number)
      <<"n", COMMA, "1", COMMA, "u">> }    \* n,1,u  (no such focus area)

FocusSectionsHeader == Csv(<<K_focus_area_id, K_section_order, K_text>>)

FocusSectionFiles ==
    {TextFile(FocusSectionsHeader, rows) :
        rows \in SeqsUpTo(FocusSectionRowPool, MaxFocusSectionRows)}
    \cup { TextFile(Csv(<<K_focusAreaId, K_section_order, K_text>>),
                    << <<"f", COMMA, "1", COMMA, "r">> >>),
           TextFile(Csv(<<K_focus_area_id, K_sectionOrder, K_text>>),
                    << <<"f", COMMA, "2", COMMA, "w">>, <<"f", COMMA, "1", COMMA, "r">> >>),
           MissingFile }

\* The source directory the other directories differ from in one table.
BaseSourceDir ==
    SourceDir(TextFile(ProjectsHeader, ExampleProjectRows),
              TextFile(SectionsHeader, << <<"a", COMMA, "1", COMMA, "s">>,
                                          <<"z", COMMA, "2", COMMA, "t">> >>))

\* Rows name,display_order of a resume table; the name tells the rows apart.
ResumeRowPool ==
    { <<"m", COMMA, "2">>,     \* m,2
      <<"l", COMMA, "1">>,     \* l,1
      <<"k", COMMA>>,          \* k,    (empty order)
      <<"j", COMMA, "x">> }    \* j,x   (order not a number)

\* The files of a resume table whose first column is nameColumn.
ResumeFiles(nameColumn) ==
    {TextFile(Csv(<<nameColumn, K_display_order>>), rows) :
        rows \in SeqsUpTo(ResumeRowPool, MaxResumeRows)}
    \cup { TextFile(Csv(<<nameColumn, K_displayOrder>>),
                    << <<"m", COMMA, "2">>, <<"l", COMMA, "1">> >>),
           TextFile(nameColumn, << <<"m">>, <<"l">> >>),
           MissingFile }

FewResumeFiles(nameColumn) ==
    { TextFile(Csv(<<nameColumn, K_display_order>>),
               << <<"m", COMMA, "2">>, <<"l", COMMA, "1">> >>),
      TextFile(Csv(<<nameColumn, K_display_order>>), << <<"j", COMMA, "x">> >>),
      EmptyFile }

\* The resume-header table: missing, without text, a header line only, one
\* row, two rows, and a row shorter than the header.
ResumeHeaderFiles ==
    { MissingFile, EmptyFile,
      TextFile(Csv(<<K_title, K_location>>), <<>>),
      TextFile(Csv(<<K_title, K_location>>), << <<"n", COMMA, "o">> >>),
      TextFile(Csv(<<K_title, K_location>>), << <<"n", COMMA, "o">>, <<"p", COMMA, "q">> >>),
      TextFile(Csv(<<K_title, K_location>>), << <<"n">> >>) }

\* Source directories that differ from the base one in the resume tables:
\* every table of the pool for one of experience, education and skills with a
\* few tables for the other two, and every resume-header table.
ResumeSourceDirs ==
    {[BaseSourceDir EXCEPT !["resume_experience.csv"] = x,
                           !["resume_education.csv"] = e,
                           !["resume_skills.csv"] = k] :
        x \in ResumeFiles(K_company), e \in FewResumeFiles(K_school),
        k \in {MissingFile}}
    \cup {[BaseSourceDir EXCEPT !["resume_experience.csv"] = x,
                                !["resume_education.csv"] = e,
                                !["resume_skills.csv"] = k] :
        x \in FewResumeFiles(K_company), e \in ResumeFiles(K_school),
        k \in FewResumeFiles(K_category)}
    \cup {[BaseSourceDir EXCEPT !["resume_experience.csv"] = x,
                                !["resume_skills.csv"] = k] :
        x \in FewResumeFiles(K_company), k \in ResumeFiles(K_category)}
    \cup {[BaseSourceDir EXCEPT !["resume_header.csv"] = h] : h \in ResumeHeaderFiles}

\* A source directory that does not exist: every table is missing.
NoSourceDir == [f \in {TableFiles[t] : t \in DOMAIN TableFiles} |-> MissingFile]

\* A source directory that holds only these two tables.
BareSourceDir(projectsFile, sectionsFile) ==
    [NoSourceDir EXCEPT !["projects.csv"] = projectsFile,
                        !["case_study_sections.csv"] = sectionsFile]

\* No document has been written yet.
AbsentDisk == [w \in 1..Len(DocNames) |-> AbsentFile]

\* An invocation about to start; the other invocation is not run.
OneInvocation ==
    /\ pc = [p \in Procs |-> IF p = 1 THEN "start" ELSE "idle"]
    /\ tables = [p \in Procs |-> NoTables]
    /\ docs = [p \in Procs |-> NoDocs]
    /\ wfile = [p \in Procs |-> 0]
    /\ buffer = [p \in Procs |-> <<>>]
    /\ wpos = [p \in Procs |-> 0]
    /\ prior = [p \in Procs |-> AbsentDisk]

-----------------------------------------------------------------------------
(* One invocation on a file system that does not fail, over every projects  *)
(* table of the pool with a few case-study-sections tables, and every       *)
(* case-study-sections table of the pool with a few projects tables; and    *)
(* every project-details, focus-areas and focus-area-sections table of the  *)
(* pools with the other tables fixed.                                       *)

Init ==
    /\ \/ /\ outputDir = TRUE
          /\ files \in {SourceDir(pf, sf) : pf \in ProjectFiles, sf \in FewSectionFiles}
                      \cup {SourceDir(pf, sf) : pf \in FewProjectFiles, sf \in SectionFiles}
                      \cup {[BaseSourceDir EXCEPT !["project_details.csv"] = df] :
                                df \in DetailFiles}
                      \cup {[BaseSourceDir EXCEPT !["focus_areas.csv"] = af] :
                                af \in FocusAreaFiles}
                      \cup {[BaseSourceDir EXCEPT !["focus_area_sections.csv"] = ff] :
                                ff \in FocusSectionFiles}
                      \cup ResumeSourceDirs
       \/ /\ outputDir = FALSE
          /\ files = NoSourceDir
    /\ disk = AbsentDisk
    /\ OneInvocation
    /\ TokIdle
    /\ ParseIdle
    /\ CoerceIdle
    /\ LookupIdle
    /\ AppIdle

Next == Step(1)

Spec == Init /\ [][Next]_vars

-----------------------------------------------------------------------------
(* One invocation, run again and again, on a file system whose writes may   *)
(* fail; before a run the source tables may be edited.                      *)

IOSourceDirs ==
    { BareSourceDir(TextFile(ProjectsHeader, << <<"b", COMMA, "1">> >>), MissingFile),
      BareSourceDir(TextFile(ProjectsHeader, << <<"a", COMMA, "2">>, <<"b", COMMA, "1">> >>),
                    TextFile(SectionsHeader, << <<"z", COMMA, "2", COMMA, "t">> >>)),
      BareSourceDir(TextFile(ProjectsHeaderOpenQuote, ExampleProjectRows), MissingFile) }

\* The data directory holds some of the tables, or does not exist yet.
IOInit ==
    /\ \/ outputDir = TRUE /\ files \in IOSourceDirs
       \/ outputDir = FALSE /\ files = NoSourceDir
    /\ disk = AbsentDisk
    /\ OneInvocation
    /\ TokIdle
    /\ ParseIdle
    /\ CoerceIdle
    /\ LookupIdle
    /\ AppIdle

\* Before a run the author edits the source tables (in the data directory,
\* which exists from then on).
EditSources ==
    /\ \A p \in Procs : pc[p] \in {"idle", "start"}
    /\ files' \in IOSourceDirs \ {files}
    /\ outputDir' = TRUE
    /\ UNCHANGED <<pc, tables, docs, wfile, buffer, wpos, prior, disk, tokVars, parseVars, coerceVars, lookupVars, appVars>>

IONext == Step(1) \/ WriteFails(1) \/ Restart(1) \/ EditSources

SpecIO == IOInit /\ [][IONext]_vars

-----------------------------------------------------------------------------
(* Two invocations at once on the same source tables and output location.   *)

ConcInit ==
    /\ outputDir = TRUE
    /\ files \in { SourceDir(TextFile(ProjectsHeader, << <<"b", COMMA, "1">> >>), MissingFile),
                   SourceDir(MissingFile, MissingFile) }
    /\ disk = AbsentDisk
    /\ pc = [p \in Procs |-> "start"]
    /\ tables = [p \in Procs |-> NoTables]
    /\ docs = [p \in Procs |-> NoDocs]
    /\ wfile = [p \in Procs |-> 0]
    /\ buffer = [p \in Procs |-> <<>>]
    /\ wpos = [p \in Procs |-> 0]
    /\ prior = [p \in Procs |-> AbsentDisk]
    /\ TokIdle
    /\ ParseIdle
    /\ CoerceIdle
    /\ LookupIdle
    /\ AppIdle

ConcNext == \E p \in Procs : Step(p)

SpecConc == ConcInit /\ [][ConcNext]_vars

-----------------------------------------------------------------------------
(* Properties of the table reader. *)

\* The lines of the file that are not blank, trimmed, as the file's author wrote them.
WrittenLines == SelectSeq([k \in 1..Len(csvLines) |-> Trim(csvLines[k])],
                          LAMBDA l : l # <<>>)

HeaderTokenizes == WrittenLines # <<>> /\ parseCSVLine(WrittenLines[1]).ok

\* The data lines on which parseCSVLine does not raise, in file order.
TokenizableData == SelectSeq(Tail(WrittenLines), LAMBDA l : parseCSVLine(l).ok)

\* C3: when the header line tokenizes, parseCSV returns (it does not raise), it
\* returns one record per data line on which parseCSVLine does not raise, in the
\* order of the lines, each the zip of the header with that line's fields, and
\* so skips exactly the data lines on which parseCSVLine raises.
C3_SkipsExactlyUnterminatedRows ==
    (parseOut.state # "pending" /\ HeaderTokenizes) =>
        /\ parseOut.state = "returned"
        /\ Len(parseOut.records) = Len(TokenizableData)
        /\ \A k \in 1..Len(TokenizableData) :
              parseOut.records[k] =
                  MakeRecord(parseCSVLine(WrittenLines[1]).fields,
                             parseCSVLine(TokenizableData[k]).fields)

\* A table whose first data line has an unterminated quote and whose later
\* data line is well-formed has been read: one record, from the later line.
C3_Witness ==
    /\ parseOut.state = "returned"
    /\ csvLines = << <<"h", COMMA, "k">>, <<DQ, "a">>, <<"a", COMMA, "b">> >>
    /\ parseOut.records = << MakeRecord(<< <<"h">>, <<"k">> >>, << <<"a">>, <<"b">> >>) >>

-----------------------------------------------------------------------------
(* Properties of the tokenizer. *)

Scanning(c) ==
    tokOut.state = "running" /\ scan.i < Len(line) /\ line[scan.i + 1] = c

\* A comma outside quote-mode ends the field, trimmed; inside, it is content.
CommaRule ==
    Scanning(COMMA) =>
        /\ scan'.i = scan.i + 1
        /\ scan'.inQuotes = scan.inQuotes
        /\ IF scan.inQuotes
           THEN scan'.current = Append(scan.current, COMMA) /\ scan'.result = scan.result
           ELSE scan'.current = <<>> /\ scan'.result = Append(scan.result, Trim(scan.current))

\* The fields returned are the fields ended by commas and the last one, all trimmed.
FlushRule ==
    tokOut.state = "returned" =>
        /\ tokOut.fields = Append(scan.result, Trim(scan.current))
        /\ \A k \in 1..Len(tokOut.fields) : Trim(tokOut.fields[k]) = tokOut.fields[k]

\* C9: parseCSVLine ends the current field at every comma met outside quote-mode
\* and keeps every comma met inside quote-mode as content of the field; every
\* field it returns is trimmed.
C9_CommaEndsFieldOutsideQuotes == [][CommaRule]_vars /\ []FlushRule

\* a,"b,c",d has been tokenized into a | b,c | d.
C9_Witness ==
    /\ line = ExampleComma
    /\ tokOut.state = "returned"
    /\ tokOut.fields = << <<"a">>, <<"b", COMMA, "c">>, <<"d">> >>

\* A quote toggles quote-mode, unless it is inside quote-mode and followed by a
\* second quote: then one quote is appended and both characters are consumed.
QuoteRule ==
    Scanning(DQ) =>
        /\ scan'.result = scan.result
        /\ IF scan.inQuotes /\ scan.i + 1 < Len(line) /\ line[scan.i + 2] = DQ
           THEN /\ scan'.current = Append(scan.current, DQ)
                /\ scan'.i = scan.i + 2
                /\ scan'.inQuotes = scan.inQuotes
           ELSE /\ scan'.current = scan.current
                /\ scan'.i = scan.i + 1
                /\ scan'.inQuotes = ~scan.inQuotes

\* C10: in parseCSVLine a double quote toggles quote-mode, except that inside
\* quote-mode a double quote immediately followed by a second one appends one
\* literal double quote to the current field, consumes both characters and
\* leaves quote-mode unchanged.
C10_QuoteTogglesOrEscapes == [][QuoteRule]_vars

\* a,"b""c",d has been tokenized into a | b"c | d.
C10_Witness ==
    /\ line = ExampleEscape
    /\ tokOut.state = "returned"
    /\ tokOut.fields = << <<"a">>, <<"b", DQ, "c">>, <<"d">> >>

-----------------------------------------------------------------------------
(* Properties of the join, for invocation 1 once it has built the projects  *)
(* and the orphan collection.                                               *)

Joined == pc[1] \in {"mkdir", "resume", "open", "write", "done"}

SectionRows == tables[1].caseStudySections
ProjectRows == tables[1].projects
ProjectList == docs[1].projects.array
OrphanList == docs[1].caseStudies.array

\* A case-study-section row as it is listed in a caseStudy field.
Listed(cs) ==
    [image |-> Get(cs, K_image_url),
     text |-> Get(cs, K_text),
     sectionTitle |-> Or(Or(Get(cs, K_section_title), Get(cs, K_sectionTitle)), JNull)]

Count(list, v) == Cardinality({k \in 1..Len(list) : list[k] = v})

MatchesNoProject(id) == \A k \in 1..Len(ProjectRows) : ProjectId(ProjectRows[k]) # id

InNoProject(cs) ==
    \A k \in 1..Len(ProjectList) : Count(ProjectList[k].caseStudy.array, Listed(cs)) = 0

\* The row is in the orphan entry of its foreign key, as often as the table has it.
InOrphanEntry(cs) ==
    LET at == {k \in 1..Len(OrphanList) : OrphanList[k].id = JStr(ForeignKey(cs))}
        same == {j \in 1..Len(SectionRows) :
                    /\ ForeignKey(SectionRows[j]) = ForeignKey(cs)
                    /\ Listed(SectionRows[j]) = Listed(cs)}
    IN  /\ Cardinality(at) = 1
        /\ \A k \in at : Count(OrphanList[k].caseStudy.array, Listed(cs)) = Cardinality(same)

InNoOrphanEntry(cs) ==
    \A k \in 1..Len(OrphanList) : Count(OrphanList[k].caseStudy.array, Listed(cs)) = 0

\* C1, as stated: every case-study-section row whose foreign key matches no
\* project's trimmed id is absent from every project's caseStudy list and is in
\* the entry of the orphan collection whose id is that key; none is discarded.
C1_EveryUnmatchedRowIsOrphan ==
    Joined =>
        \A i \in 1..Len(SectionRows) :
            MatchesNoProject(ForeignKey(SectionRows[i])) =>
                InNoProject(SectionRows[i]) /\ InOrphanEntry(SectionRows[i])

\* C1, amended: every case-study-section row whose foreign key is not empty and
\* matches no project's trimmed id is absent from every project's caseStudy
\* list and is in the entry of the orphan collection whose id is that key; a
\* row whose foreign key is empty is in no list at all.
C1_UnmatchedKeyedRowIsOrphan ==
    Joined =>
        \A i \in 1..Len(SectionRows) :
            LET cs == SectionRows[i]
            IN  /\ (ForeignKey(cs) # <<>> /\ MatchesNoProject(ForeignKey(cs))) =>
                        InNoProject(cs) /\ InOrphanEntry(cs)
                /\ ForeignKey(cs) = <<>> => InNoProject(cs) /\ InNoOrphanEntry(cs)

\* Project a and the rows z,2,t and ,1,u: the orphan collection is the entry z
\* with the one section t.
C1_Witness ==
    /\ Joined
    /\ Len(ProjectRows) = 1 /\ ProjectId(ProjectRows[1]) = <<"a">>
    /\ Len(SectionRows) = 2
    /\ ForeignKey(SectionRows[1]) = <<"z">>
    /\ ForeignKey(SectionRows[2]) = <<>>
    /\ OrphanList = << [id |-> JStr(<<"z">>),
                        caseStudy |-> JArr(<< Listed(SectionRows[1]) >>)] >>

\* The sort key of a projects row: its display_order (or displayOrder) as a
\* number, 0 when it is missing, empty or not a number.
OrderOf(project) ==
    LET v == Nullish(Get(project, K_display_order), Get(project, K_displayOrder))
    IN  IF IsStr(v) /\ Number(v.string).finite THEN Number(v.string).value ELSE 0

\* The place of row i in the list: after the rows with a smaller key and after
\* the earlier rows with the same key.
Rank(i) ==
    1 + Cardinality({j \in 1..Len(ProjectRows) :
                        \/ OrderOf(ProjectRows[j]) < OrderOf(ProjectRows[i])
                        \/ OrderOf(ProjectRows[j]) = OrderOf(ProjectRows[i]) /\ j < i})

\* C2: the project list holds one project per row of the projects table, sorted
\* ascending by displayOrder, a missing, empty or non-numeric order counting as
\* 0, and projects with equal displayOrder in the order of their rows.
C2_ProjectsSortedStable ==
    Joined =>
        /\ Len(ProjectList) = Len(ProjectRows)
        /\ \A i \in 1..Len(ProjectRows) :
              /\ ProjectList[Rank(i)].id = JStr(ProjectId(ProjectRows[i]))
              /\ ProjectList[Rank(i)].displayOrder = JNum(OrderOf(ProjectRows[i]))

\* Rows a (order 2), b (order 1), c (order empty) have come out as c, b, a.
C2_Witness ==
    /\ Joined
    /\ [k \in 1..Len(ProjectRows) |-> Get(ProjectRows[k], K_id)]
          = << JStr(<<"a">>), JStr(<<"b">>), JStr(<<"c">>) >>
    /\ [k \in 1..Len(ProjectRows) |-> Get(ProjectRows[k], K_display_order)]
          = << JStr(<<"2">>), JStr(<<"1">>), JStr(<<>>) >>
    /\ [k \in 1..Len(ProjectList) |-> ProjectList[k].id]
          = << JStr(<<"c">>), JStr(<<"b">>), JStr(<<"a">>) >>

-----------------------------------------------------------------------------
(* Properties of an invocation as a whole. *)

\* C4: on a file system that does not fail, no content of a source table ends
\* the invocation with a failure.
C4_NoContentTerminatesRun == pc[1] # "exit1"

\* The documents invocation p is writing, as files.
NewDisk(p) == Persisted(docs[p])

\* The invocation has ended in the catch block because a write failed.
WriteFailed == pc[1] = "exit1" /\ wfile[1] >= 1

\* C5: after a write has failed, each of the four files holds what it held
\* when the invocation began or the complete new serialization.
C5_NoHalfWrittenDocument ==
    WriteFailed =>
        \A w \in 1..Len(DocNames) : disk[w] = prior[1][w] \/ disk[w] = NewDisk(1)[w]

\* C6: while two invocations write to the same output location, every file
\* that exists is the complete serialization one of them produces.
C6_ReadersSeeCompleteDocuments ==
    (\A p \in Procs : wfile[p] >= 1) =>
        \A w \in 1..Len(DocNames) :
            disk[w].exists => \E p \in Procs : disk[w] = NewDisk(p)[w]

\* C7: a write failure ends the invocation with exit status 1, and then no
\* file is from the new run while another is still from before it.
C7_FailedRunLeavesOneRun ==
    WriteFailed =>
        ~\E v, w \in 1..Len(DocNames) :
            /\ disk[v] = NewDisk(1)[v] /\ disk[v] # prior[1][v]
            /\ disk[w] = prior[1][w] /\ disk[w] # NewDisk(1)[w]

\* The records of the tables of a source directory.
RecordsOf(src) == [t \in DOMAIN TableFiles |-> readCSV(src, TableFiles[t]).records]

\* C8: when an invocation has completed, the four files are the serializations
\* of the documents of the source tables, whatever the output location held
\* when it began and whatever earlier runs did.
C8_OutputIsFunctionOfSources ==
    pc[1] = "done" => disk = Persisted(BuildAll(RecordsOf(files)))

\* A run has completed over documents another run had left, and replaced them.
C8_Witness ==
    /\ pc[1] = "done"
    /\ \A w \in 1..Len(DocNames) : prior[1][w].exists
    /\ prior[1] # disk
    /\ disk = NewDisk(1)

-----------------------------------------------------------------------------
(* Properties of the records of the table reader. *)

\* The table has a header line and parseCSVLine raises on none of its lines.
WellFormedTable ==
    /\ HeaderTokenizes
    /\ \A k \in 1..Len(WrittenLines) : parseCSVLine(WrittenLines[k]).ok

HeaderColumns == parseCSVLine(WrittenLines[1]).fields

FieldsOf(k) == parseCSVLine(TokenizableData[k]).fields

LastOfName(i) == \A j \in (i + 1)..Len(HeaderColumns) : HeaderColumns[j] # HeaderColumns[i]

-----------------------------------------------------------------------------
(* Properties of missing and empty tables. *)

SourceFile(t) == files[TableFiles[t]]

\* The table's file is missing, or its text has no non-blank line.
EmptySource(t) ==
    \/ ~SourceFile(t).exists
    \/ \A k \in 1..Len(SourceFile(t).text) : SourceFile(t).text[k] \in WhiteSpace \cup {NL, CR}

\* The table's file has a header line on which parseCSVLine raises.
HeaderRaises(t) ==
    /\ ~EmptySource(t)
    /\ ~parseCSVLine(NonEmptyLines(SourceFile(t).text)[1]).ok

\* C13: a source table that is missing or has no non-blank line is read as the
\* empty table; the invocation ends in failure only when the header line of
\* some table that is not empty raises, and when it is done all four documents
\* are written.
C13_MissingOrEmptyTableIsEmpty ==
    /\ \A t \in DOMAIN TableFiles :
          (EmptySource(t) /\ pc[1] \notin {"start", "exit1"}) => tables[1][t] = <<>>
    /\ pc[1] = "exit1" => \E t \in DOMAIN TableFiles : HeaderRaises(t)
    /\ pc[1] = "done" =>
          /\ disk = NewDisk(1)
          /\ \A w \in 1..Len(DocNames) : disk[w].exists /\ disk[w].data # <<>>

\* A run with the projects table missing and the case-study-sections table
\* blank is done: four documents, the project list and the orphan list empty.
C13_Witness ==
    /\ pc[1] = "done"
    /\ ~SourceFile("projects").exists
    /\ SourceFile("caseStudySections") = BlankFile
    /\ \A w \in 1..Len(DocNames) : disk[w].exists
    /\ docs[1].projects = JArr(<<>>)
    /\ docs[1].caseStudies = JArr(<<>>)

-----------------------------------------------------------------------------
(* Properties of the children of projects and focus areas. *)

DetailRows == tables[1].projectDetails
FocusAreaRows == tables[1].focusAreas
FocusSectionRows == tables[1].focusAreaSections
FocusAreaList == docs[1].focusAreas.array

\* The foreign key of a child row under either spelling of its column.
KeyUnderEitherName(row, snake, camel) == Or(Get(row, snake), Get(row, camel))

\* C14: a project-detail row whose foreign key, under project_id or under
\* projectId, is the id of a project is in the details of that project, and a
\* focus-area-section row whose foreign key, under focus_area_id or under
\* focusAreaId, is the id of a focus area is in the sections of that focus area.
C14_EitherSpellingOfForeignKey ==
    Joined =>
        /\ \A i \in 1..Len(DetailRows) : \A k \in 1..Len(ProjectList) :
              KeyUnderEitherName(DetailRows[i], K_project_id, K_projectId) = ProjectList[k].id =>
                  \E j \in 1..Len(ProjectList[k].details.array) :
                      ProjectList[k].details.array[j].heading = Get(DetailRows[i], K_heading)
        /\ \A i \in 1..Len(FocusSectionRows) : \A k \in 1..Len(FocusAreaList) :
              KeyUnderEitherName(FocusSectionRows[i], K_focus_area_id, K_focusAreaId)
                    = FocusAreaList[k].id =>
                  \E j \in 1..Len(FocusAreaList[k].sections.array) :
                      FocusAreaList[k].sections.array[j].text = Get(FocusSectionRows[i], K_text)

\* The order a row gives under either spelling of its order column, as a
\* number: 0 when it is missing, empty or not a number.
OrderUnder(row, snake, camel) ==
    LET v == Nullish(Get(row, snake), Get(row, camel))
    IN  IF IsStr(v) /\ Number(v.string).finite THEN Number(v.string).value ELSE 0

\* The place of row j among the rows M of a table: after the rows of M with a
\* smaller order and after the earlier rows of M with the same order.
RankAmong(M, j, rows, snake, camel) ==
    1 + Cardinality({m \in M :
            \/ OrderUnder(rows[m], snake, camel) < OrderUnder(rows[j], snake, camel)
            \/ OrderUnder(rows[m], snake, camel) = OrderUnder(rows[j], snake, camel) /\ m < j})

\* The project-detail rows whose project_id is the given id.
DetailsMatching(id) ==
    {j \in 1..Len(DetailRows) : Get(DetailRows[j], K_project_id) = JStr(id)}

\* C15: the details of every project are the project-detail rows whose
\* project_id equals the project's trimmed id, one entry per row, ascending by
\* detail-order (0 when missing or not a number) and in table order among
\* equals; its caseStudy has one entry per case-study row of that id; so a
\* project without children has both lists empty.
C15_DetailsFilteredAndSorted ==
    Joined =>
        \A i \in 1..Len(ProjectRows) :
            LET id == ProjectId(ProjectRows[i])
                project == ProjectList[Rank(i)]
                M == DetailsMatching(id)
            IN  /\ Len(project.details.array) = Cardinality(M)
                /\ \A j \in M :
                      project.details.array[
                          RankAmong(M, j, DetailRows, K_detail_order, K_detailOrder)].heading
                        = Get(DetailRows[j], K_heading)
                /\ Len(project.caseStudy.array) =
                      Cardinality({j \in 1..Len(SectionRows) :
                                      id # <<>> /\ ForeignKey(SectionRows[j]) = id})

\* Projects a, b, c and the detail rows a,2,h | a,1,g: a has the details g, h
\* and b has neither details nor case-study sections.
C15_Witness ==
    /\ Joined
    /\ Len(ProjectList) = 3 /\ Len(DetailRows) = 2
    /\ Get(DetailRows[1], K_heading) = JStr(<<"h">>)
    /\ Get(DetailRows[1], K_detail_order) = JStr(<<"2">>)
    /\ Get(DetailRows[2], K_detail_order) = JStr(<<"1">>)
    /\ \E k \in 1..3 :
          /\ ProjectList[k].id = JStr(<<"a">>)
          /\ [j \in 1..Len(ProjectList[k].details.array) |->
                 ProjectList[k].details.array[j].heading] = << JStr(<<"g">>), JStr(<<"h">>) >>
    /\ \E k \in 1..3 :
          /\ ProjectList[k].id = JStr(<<"b">>)
          /\ ProjectList[k].details = JArr(<<>>)
          /\ ProjectList[k].caseStudy = JArr(<<>>)

\* The case-study-section rows whose foreign key is the given id.
SectionsMatching(id) ==
    {j \in 1..Len(SectionRows) : id # <<>> /\ ForeignKey(SectionRows[j]) = id}

\* The list holds the rows of the given id, each at the place its section-order
\* and its position in the table give it, and none with the order key.
SortedSectionsOf(list, id) ==
    /\ Len(list) = Cardinality(SectionsMatching(id))
    /\ \A j \in SectionsMatching(id) :
          list[RankAmong(SectionsMatching(id), j, SectionRows,
                         K_section_order, K_sectionOrder)] = Listed(SectionRows[j])
    /\ \A k \in 1..Len(list) : DOMAIN list[k] = {"image", "text", "sectionTitle"}

\* C16: every caseStudy list, of a project and of an orphan entry, holds its
\* sections ascending by section-order (0 when missing or not a number), in
\* table order among equals, and no section has the order key.
C16_CaseStudySortedAndStripped ==
    Joined =>
        /\ \A k \in 1..Len(ProjectList) :
              SortedSectionsOf(ProjectList[k].caseStudy.array, ProjectList[k].id.string)
        /\ \A k \in 1..Len(OrphanList) :
              SortedSectionsOf(OrphanList[k].caseStudy.array, OrphanList[k].id.string)

\* The rows z,2,t | z,,v have come out as the orphan entry z with v before t.
C16_Witness ==
    /\ Joined
    /\ Len(SectionRows) = 2
    /\ Get(SectionRows[1], K_text) = JStr(<<"t">>)
    /\ Get(SectionRows[2], K_text) = JStr(<<"v">>)
    /\ OrphanList = << [id |-> JStr(<<"z">>),
                        caseStudy |-> JArr(<< Listed(SectionRows[2]),
                                              Listed(SectionRows[1]) >>)] >>

\* The focus-area-section rows whose focus_area_id is the given value.
FocusSectionsMatching(id) ==
    {j \in 1..Len(FocusSectionRows) : Get(FocusSectionRows[j], K_focus_area_id) = id}

\* A focus-area-section row as it is listed in a sections field.
ListedFocus(s) ==
    [image |-> Get(s, K_image_url),
     text |-> Get(s, K_text),
     sectionTitle |-> Or(Or(Get(s, K_section_title), Get(s, K_sectionTitle)), JNull)]

\* The row is in no list of any document.
InNoDocument(listed) ==
    /\ \A k \in 1..Len(FocusAreaList) : Count(FocusAreaList[k].sections.array, listed) = 0
    /\ \A k \in 1..Len(ProjectList) : Count(ProjectList[k].caseStudy.array, listed) = 0
    /\ \A k \in 1..Len(OrphanList) : Count(OrphanList[k].caseStudy.array, listed) = 0

\* C17: the focus-area list holds one focus area per row of the table, ascending
\* by displayOrder (0 when missing or not a number, table order among equals);
\* the sections of each are the focus-area-section rows whose focus_area_id is
\* its id, ascending by section-order, without the order key; a section row
\* whose focus_area_id is no focus area's id is in no document.
C17_FocusAreasJoinedAndSorted ==
    Joined =>
        /\ Len(FocusAreaList) = Len(FocusAreaRows)
        /\ \A i \in 1..Len(FocusAreaRows) :
              LET fa == FocusAreaList[RankAmong(1..Len(FocusAreaRows), i, FocusAreaRows,
                                                K_display_order, K_displayOrder)]
                  M == FocusSectionsMatching(Get(FocusAreaRows[i], K_id))
              IN  /\ fa.id = Get(FocusAreaRows[i], K_id)
                  /\ fa.title = Get(FocusAreaRows[i], K_title)
                  /\ fa.displayOrder =
                        JNum(OrderUnder(FocusAreaRows[i], K_display_order, K_displayOrder))
                  /\ Len(fa.sections.array) = Cardinality(M)
                  /\ \A j \in M :
                        fa.sections.array[RankAmong(M, j, FocusSectionRows,
                                                    K_section_order, K_sectionOrder)]
                          = ListedFocus(FocusSectionRows[j])
                  /\ \A k \in 1..Len(fa.sections.array) :
                        DOMAIN fa.sections.array[k] = {"image", "text", "sectionTitle"}
        /\ \A j \in 1..Len(FocusSectionRows) :
              (\A i \in 1..Len(FocusAreaRows) :
                    Get(FocusAreaRows[i], K_id) # Get(FocusSectionRows[j], K_focus_area_id))
                => InNoDocument(ListedFocus(FocusSectionRows[j]))

\* Focus areas f (order 2), e (order 1) and the section rows f,1,r | n,1,u:
\* the list is e, f, the sections of f are r alone, and u is nowhere.
C17_Witness ==
    /\ Joined
    /\ Len(FocusSectionRows) = 2
    /\ Get(FocusSectionRows[1], K_text) = JStr(<<"r">>)
    /\ Get(FocusSectionRows[2], K_focus_area_id) = JStr(<<"n">>)
    /\ [k \in 1..Len(FocusAreaRows) |-> Get(FocusAreaRows[k], K_id)]
          = << JStr(<<"f">>), JStr(<<"e">>) >>
    /\ [k \in 1..Len(FocusAreaList) |-> FocusAreaList[k].id]
          = << JStr(<<"e">>), JStr(<<"f">>) >>
    /\ FocusAreaList[1].sections = JArr(<<>>)
    /\ FocusAreaList[2].sections = JArr(<< ListedFocus(FocusSectionRows[1]) >>)
    /\ InNoDocument(ListedFocus(FocusSectionRows[2]))

-----------------------------------------------------------------------------
(* Properties of the fields of a project. *)

\* The primary image of a projects row: its image when that is a non-empty
\* string, else its image_url when that is one, else the empty string.
PrimaryImageOf(project) ==
    IF K_image \in DOMAIN project /\ project[K_image] # <<>>
    THEN project[K_image]
    ELSE IF K_image_url \in DOMAIN project /\ project[K_image_url] # <<>>
    THEN project[K_image_url]
    ELSE <<>>

-----------------------------------------------------------------------------
(* Properties of toBoolean and toNumber. *)

\* The spellings toBoolean accepts, in lower case.
TrueWords == {<<"t", "r", "u", "e">>, <<"1">>, <<"y", "e", "s">>}

\* The two characters are the same letter in either case, or the same character.
SameIgnoringCase(c, d) ==
    \/ c = d
    \/ \E u \in 1..Len(UpperLetters) :
          {c, d} = {UpperLetters[u], LowerLetters[u]}

EqualsIgnoringCase(s, w) ==
    /\ Len(s) = Len(w)
    /\ \A k \in 1..Len(s) : SameIgnoringCase(s[k], w[k])

\* C19, as stated: toBoolean returns true exactly when its argument is a string
\* equal, ignoring case, to true, 1 or yes, and false for every other argument.
C19_TrueExactlyOnAcceptedStrings ==
    ret.fn = "toBoolean" =>
        ret.value = (IsStr(arg) /\ \E w \in TrueWords : EqualsIgnoringCase(arg.string, w))

\* C19, amended: toBoolean returns its argument when that is a boolean; for a
\* string it returns true exactly when the string, trimmed, equals true, 1 or
\* yes ignoring case; for every other argument it returns false.
C19_TrueOnBooleanTrueAndTrimmedAcceptedStrings ==
    ret.fn = "toBoolean" =>
        ret.value =
            IF DOMAIN arg = {"boolean"} THEN arg.boolean
            ELSE /\ IsStr(arg)
                 /\ \E w \in TrueWords : EqualsIgnoringCase(Trim(arg.string), w)

\* toBoolean("tRuE") has returned true.
C19_Witness ==
    /\ ret.fn = "toBoolean"
    /\ ret.value = TRUE
    /\ arg = JStr(<<"t", "R", "u", "E">>)

\* The string is an optionally signed run of decimal digits.
IsNumeral(t) ==
    LET body == IF t # <<>> /\ t[1] \in {"-", "+"} THEN Tail(t) ELSE t
    IN  body # <<>> /\ \A k \in 1..Len(body) : IsDigit(body[k])

NumeralValue(t) ==
    IF t[1] = "-" THEN 0 - DigitsValue(Tail(t))
    ELSE IF t[1] = "+" THEN DigitsValue(Tail(t))
    ELSE DigitsValue(t)

\* The fallback of the call: the one passed, 0 when none is.
FallbackOfCall == IF fallbackArg.given THEN fallbackArg.value ELSE 0

-----------------------------------------------------------------------------
(* The number of fields of a line. *)

\* The commas of ln among its first n characters that stand outside quotes:
\* those with an even number of double quotes before them.
CommasOutsideQuotes(ln, n) ==
    {k \in 1..n : /\ ln[k] = COMMA
                  /\ Cardinality({j \in 1..(k - 1) : ln[j] = DQ}) % 2 = 0}

\* C29: for every line on which parseCSVLine does not raise, the number of
\* fields returned is one plus the number of commas scanned outside quote-mode
\* (while it scans, the fields ended so far are as many as those commas); the
\* result is never the empty list, and the empty line gives the one field "".
C29_FieldsAreOutsideCommasPlusOne ==
    /\ tokOut.state = "running" =>
           Len(scan.result) = Cardinality(CommasOutsideQuotes(line, scan.i))
    /\ tokOut.state = "returned" =>
           /\ Len(tokOut.fields) = 1 + Cardinality(CommasOutsideQuotes(line, Len(line)))
           /\ tokOut.fields # <<>>
           /\ line = <<>> => tokOut.fields = << <<>> >>

\* The line `,",",` has been tokenized: two commas outside quotes, three fields.
C29_Witness ==
    /\ line = <<COMMA, DQ, COMMA, DQ, COMMA>>
    /\ tokOut.state = "returned"
    /\ Len(tokOut.fields) = 3

-----------------------------------------------------------------------------
(* The orphan collection. *)

\* C28: in the orphan collection that buildData emits, every entry has a
\* non-empty id that is the id of no project of the project list, no two
\* entries have the same id, and every entry has at least one section.
C28_OrphansKeyedDistinctNonEmpty ==
    Joined =>
        \A k \in 1..Len(OrphanList) :
            /\ IsStr(OrphanList[k].id) /\ OrphanList[k].id.string # <<>>
            /\ \A j \in 1..Len(ProjectList) : ProjectList[j].id # OrphanList[k].id
            /\ \A j \in 1..Len(OrphanList) : OrphanList[j].id = OrphanList[k].id => j = k
            /\ Len(OrphanList[k].caseStudy.array) >= 1

\* A run with a project that has a case study of its own, and two section rows
\* of one other id: the orphan collection is one entry with both sections.
C28_Witness ==
    /\ Joined
    /\ Len(OrphanList) = 1
    /\ Len(OrphanList[1].caseStudy.array) = 2
    /\ Len(ProjectList) >= 1

-----------------------------------------------------------------------------
(* The resume document. *)

\* The invocation has built the resume document.
ResumeBuilt == pc[1] \in {"open", "write", "done"}

ResumeDoc == docs[1].resume

\* The first data line of the resume-header file as a mapping from the columns
\* of its header line to the fields of the line, "" where the line has none.
FirstHeaderRecord ==
    LET lines == NonEmptyLines(SourceFile("resumeHeader").text)
        headers == parseCSVLine(lines[1]).fields
        fields == parseCSVLine(lines[2]).fields
    IN  [h \in Range(headers) |->
            LET at == Max({c \in 1..Len(headers) : headers[c] = h})
            IN  IF at <= Len(fields) THEN fields[at] ELSE <<>>]

\* C21: the header of the resume document is the first record of the
\* resume-header table, unchanged, and the empty mapping when that table has no
\* row; with such a table the invocation goes on from building the resume to
\* writing the documents, without an error.
C21_HeaderIsFirstRecordOrEmpty ==
    /\ [](ResumeBuilt =>
            /\ tables[1].resumeHeader # <<>> =>
                  /\ ResumeDoc.header = [record |-> tables[1].resumeHeader[1]]
                  /\ ResumeDoc.header.record = FirstHeaderRecord
            /\ tables[1].resumeHeader = <<>> => ResumeDoc.header = [record |-> <<>>])
    /\ [][(pc[1] = "resume" /\ tables[1].resumeHeader = <<>>) => pc'[1] = "open"]_vars
    /\ [](pc[1] = "done" => disk[3].data[1] = [header |-> ResumeDoc.header])

\* The resume-header table has no row and the resume document is written.
C21_Witness ==
    /\ pc[1] = "done"
    /\ SourceFile("resumeHeader") = TextFile(Csv(<<K_title, K_location>>), <<>>)
    /\ ResumeDoc.header = [record |-> <<>>]

\* Every row i of the table is the entry of the list at its rank by
\* display_order ?? displayOrder; name is the list's field of the column.
SortedStable(list, rows, field, column) ==
    /\ Len(list) = Len(rows)
    /\ \A i \in 1..Len(rows) :
          list[RankAmong(1..Len(rows), i, rows, K_display_order, K_displayOrder)][field]
            = Get(rows[i], column)

\* C22: each of the experience, education and skills lists of the resume
\* document has one entry per row of its own table, ascending by displayOrder
\* (0 when missing or not a number) and in table order among equals; what a
\* list is depends on its own table only.
C22_ResumeListsSortedIndependently ==
    ResumeBuilt =>
        /\ SortedStable(ResumeDoc.experience.array, tables[1].resumeExperience,
                        "company", K_company)
        /\ SortedStable(ResumeDoc.education.array, tables[1].resumeEducation,
                        "school", K_school)
        /\ SortedStable(ResumeDoc.skills.array, tables[1].resumeSkills,
                        "category", K_category)

\* Experience m,2 | l,1 next to education j,x | k, : experience comes out as
\* l, m and education stays j, k.
C22_Witness ==
    /\ ResumeBuilt
    /\ Len(ResumeDoc.experience.array) = 2
    /\ ResumeDoc.experience.array[1].company = JStr(<<"l">>)
    /\ ResumeDoc.experience.array[2].company = JStr(<<"m">>)
    /\ Len(ResumeDoc.education.array) = 2
    /\ ResumeDoc.education.array[1].school = JStr(<<"j">>)
    /\ ResumeDoc.education.array[2].school = JStr(<<"k">>)

-----------------------------------------------------------------------------
(* Reads and builds before writes. *)

\* A step of buildData: it leaves the source tables as they are.
ByBuildData == files' = files

\* The invocation has read the nine tables and built the four documents.
AllBuilt ==
    /\ pc[1] \in {"open", "write"}
    /\ \A d \in DOMAIN docs[1] : docs[1][d] # Undefined

\* The invocation has ended in the catch block before its first write.
AbortedBeforeWrites == pc[1] = "exit1" /\ wfile[1] = 0

\* C27, as stated: buildData changes nothing at the output location, neither a
\* document nor the directory, until it has read all nine tables and built all
\* four documents; a run that aborts before its writes leaves every persisted
\* document as it was.
C27_NoWriteBeforeAllBuilt ==
    /\ [][(ByBuildData /\ (disk' # disk \/ outputDir' # outputDir)) => AllBuilt]_vars
    /\ [](AbortedBeforeWrites => disk = prior[1])

\* C27, amended: buildData writes no document until it has read all nine
\* tables and built all four documents; before that it changes the output
\* location in one way only, creating the directory when it is missing, once
\* the tables are read and the project, focus-area and case-study documents
\* are built and before the resume document is; a run that aborts before its
\* writes leaves every persisted document as it was.
C27_NoDocumentWrittenBeforeAllBuilt ==
    /\ [][ByBuildData =>
            /\ disk' # disk => AllBuilt
            /\ outputDir' # outputDir =>
                  /\ pc[1] = "mkdir"
                  /\ docs[1].resume = Undefined
                  /\ \A d \in DOMAIN docs[1] \ {"resume"} : docs[1][d] # Undefined]_vars
    /\ [](AbortedBeforeWrites => disk = prior[1])

\* A run over documents an earlier run had written has ended on a header line
\* with an open quote, before its writes: the four documents are as they were.
C27_Witness ==
    /\ AbortedBeforeWrites
    /\ \A w \in 1..Len(DocNames) : disk[w].exists /\ disk[w].data # <<>>
    /\ disk = prior[1]

-----------------------------------------------------------------------------
(* The database service of the site (src/services/database.ts): lookups in  *)
(* the imported projects.json and case-studies.json.  A document is the      *)
(* value its JSON text denotes, so a property that was undefined is absent.  *)

\* o.name, undefined when the object has no such property
Prop(o, name) == IF name \in DOMAIN o THEN o[name] ELSE Undefined

\* v?.length, 0 standing for undefined
Length(v) == IF DOMAIN v = {"array"} THEN Len(v.array) ELSE 0

\* id?.trim()
TrimmedId(id) == IF IsStr(id) THEN JStr(Trim(id.string)) ELSE Undefined

\* list.find(pred): the first element that satisfies it, or undefined
Find(list, Pred(_)) ==
    LET at == {k \in 1..Len(list) : Pred(list[k])}
    IN  IF at = {} THEN Undefined ELSE list[Min(at)]

\* fetchCaseStudy comparing the id as it was passed.
fetchCaseStudyUntrimmed(s, projectId) ==
    LET project == Find(s.projects, LAMBDA p : p.id = projectId)
        standalone == Find(s.caseStudies, LAMBDA cs : cs.id = projectId)
    IN  IF project # Undefined /\ Length(Prop(project, "caseStudy")) > 0
        THEN project.caseStudy
        ELSE IF standalone # Undefined /\ Length(Prop(standalone, "caseStudy")) > 0
        THEN standalone.caseStudy
        ELSE JArr(<<>>)

fetchCaseStudy(s, projectId) ==
    LET id == TrimmedId(projectId)
        project == Find(s.projects, LAMBDA p : p.id = id)
        standalone == Find(s.caseStudies, LAMBDA cs : cs.id = id)
    IN  IF project # Undefined /\ Length(Prop(project, "caseStudy")) > 0
        THEN project.caseStudy
        ELSE IF standalone # Undefined /\ Length(Prop(standalone, "caseStudy")) > 0
        THEN standalone.caseStudy
        ELSE JArr(<<>>)

\* (detail.caseStudyLink || '').trim() === caseStudyId?.trim()
LinksTo(detail, caseStudyId) ==
    JStr(Trim(Or(Prop(detail, "caseStudyLink"), JStr(<<>>)).string)) = TrimmedId(caseStudyId)

\* project.details?.some(...)
SomeDetailLinksTo(project, caseStudyId) ==
    /\ Length(Prop(project, "details")) > 0
    /\ \E j \in 1..Len(project.details.array) :
          LinksTo(project.details.array[j], caseStudyId)

\* findProjectDetailByCaseStudyLink returning the project's first detail.
findProjectDetailFirstDetail(s, caseStudyId) ==
    LET match == Find(s.projects, LAMBDA p : SomeDetailLinksTo(p, caseStudyId))
    IN  IF match = Undefined THEN Undefined
        ELSE [project |-> match, detail |-> match.details.array[1]]

findProjectDetailByCaseStudyLink(s, caseStudyId) ==
    LET match == Find(s.projects, LAMBDA p : SomeDetailLinksTo(p, caseStudyId))
    IN  IF match = Undefined THEN Undefined
        ELSE LET detail == Find(match.details.array, LAMBDA d : LinksTo(d, caseStudyId))
             IN  IF detail = Undefined THEN Undefined
                 ELSE [project |-> match, detail |-> detail]

\* The objects of the imported documents, as JSON.stringify wrote them: a
\* detail with a heading and a link, a case-study section with a text, and a
\* project with its details and sections.
SiteDetail(heading, link) ==
    [heading |-> JStr(heading), image |-> JStr(<<>>),
     caseStudyLink |-> JStr(link), password |-> JStr(<<>>)]

SiteSection(text) == [text |-> JStr(text), sectionTitle |-> JNull]

SiteProject(id, displayOrder, details, caseStudy) ==
    [id |-> JStr(id), reversed |-> JBool(FALSE), hasDetailPage |-> JBool(FALSE),
     details |-> JArr(details), image |-> JStr(<<>>), images |-> JArr(<<>>),
     caseStudy |-> JArr(caseStudy), displayOrder |-> JNum(displayOrder),
     password |-> JStr(<<>>)]

\* The imported documents: project c without children, project b with up to
\* MaxDetailRows details (k linking to y, m linking to z), project a with the
\* section s and up to MaxDetailRows details (g linking to z, h without a
\* link), and the orphan case study z with the section t; and the documents
\* built from no table at all.
Sites ==
    { [projects |->
          << SiteProject(<<"c">>, 0, <<>>, <<>>),
             SiteProject(<<"b">>, 1, db, <<>>),
             SiteProject(<<"a">>, 2, da, <<SiteSection(<<"s">>)>>) >>,
       caseStudies |->
          << [id |-> JStr(<<"z">>), caseStudy |-> JArr(<<SiteSection(<<"t">>)>>)] >>] :
        da \in SeqsUpTo({SiteDetail(<<"g">>, <<"z">>), SiteDetail(<<"h">>, <<>>)},
                        MaxDetailRows),
        db \in SeqsUpTo({SiteDetail(<<"k">>, <<"y">>), SiteDetail(<<"m">>, <<"z">>)},
                        MaxDetailRows) }
    \cup { [projects |-> <<>>, caseStudies |-> <<>>] }

\* The ids looked up: of a project with a case study, of one without, of an
\* orphan case study, of a link to no case study, of nothing; padded, empty,
\* and no id at all.
QueryIds ==
    { JStr(<<"a">>), JStr(<<" ", "a", " ">>), JStr(<<"b">>), JStr(<<"z">>),
      JStr(<<" ", "z">>), JStr(<<"y">>), JStr(<<"q">>), JStr(<<>>), Undefined }

LookupInit ==
    /\ site \in Sites
    /\ query \in QueryIds
    /\ found = [fn |-> "pending"]
    /\ TokIdle
    /\ ParseIdle
    /\ BuildIdle
    /\ CoerceIdle
    /\ AppIdle

\* fetchCaseStudy(query)
CallFetchCaseStudy ==
    /\ found.fn = "pending"
    /\ found' = [fn |-> "fetchCaseStudy", value |-> fetchCaseStudy(site, query)]
    /\ UNCHANGED <<site, query, tokVars, parseVars, buildVars, coerceVars, appVars>>

\* findProjectDetailByCaseStudyLink(query)
CallFindProjectDetail ==
    /\ found.fn = "pending"
    /\ found' = [fn |-> "findProjectDetailByCaseStudyLink",
                 value |-> findProjectDetailByCaseStudyLink(site, query)]
    /\ UNCHANGED <<site, query, tokVars, parseVars, buildVars, coerceVars, appVars>>

LookupNext == CallFetchCaseStudy \/ CallFindProjectDetail

SpecLookup == LookupInit /\ [][LookupNext]_vars

-----------------------------------------------------------------------------
(* Lookups of the database service. *)

\* The query with the blanks around it removed; no string for no id.
QueryKey == IF IsStr(query) THEN Trim(query.string) ELSE <<"-", "n", "o", "n", "e", "-">>

\* The caseStudy lists of the entries of a document whose id is the query key.
CaseStudiesAt(list) ==
    {list[k].caseStudy.array : k \in {j \in 1..Len(list) : list[j].id = JStr(QueryKey)}}

\* C23: fetchCaseStudy(id) returns the embedded caseStudy of the project whose
\* id equals the trimmed id when that list is not empty; otherwise the
\* caseStudy of the orphan entry with that id when that list is not empty;
\* otherwise the empty list.
C23_EmbeddedThenOrphanThenEmpty ==
    found.fn = "fetchCaseStudy" =>
        LET embedded == CaseStudiesAt(site.projects) \ {<<>>}
            orphan == CaseStudiesAt(site.caseStudies) \ {<<>>}
        IN  /\ DOMAIN found.value = {"array"}
            /\ IF embedded # {} THEN embedded = {found.value.array}
               ELSE IF orphan # {} THEN orphan = {found.value.array}
               ELSE found.value.array = <<>>

\* fetchCaseStudy(" z") has returned the one section of the orphan entry z, on
\* a site that has projects with and without a case study.
C23_Witness ==
    /\ found.fn = "fetchCaseStudy"
    /\ query = JStr(<<" ", "z">>)
    /\ Len(found.value.array) = 1
    /\ found.value.array[1].text = JStr(<<"t">>)
    /\ Len(site.projects) = 3

\* The details of the site, as pairs of a project's index and a detail's.
DetailsLinkingToQuery ==
    {pd \in UNION {{<<k, j>> : j \in 1..Len(site.projects[k].details.array)} :
                      k \in 1..Len(site.projects)} :
        /\ IsStr(query)
        /\ Trim(site.projects[pd[1]].details.array[pd[2]].caseStudyLink.string) = QueryKey}

\* A pair is returned exactly when some detail's link matches the id, and the
\* detail returned is one of the details of the project returned.
PairOfLinkedDetail ==
    /\ found.value # Undefined <=> DetailsLinkingToQuery # {}
    /\ found.value # Undefined =>
          /\ \E k \in 1..Len(site.projects) : found.value.project = site.projects[k]
          /\ \E j \in 1..Len(found.value.project.details.array) :
                found.value.detail = found.value.project.details.array[j]

-----------------------------------------------------------------------------
(* The root component (src/App.tsx) with the detail pages' key handlers     *)
(* (SplunkDetail, FocusAreaDetail) and the browser's session history.  An   *)
(* entry of the history is the URL's project, focus and resume parameters,  *)
(* null when absent.  The state updates of one handler are one step.        *)

NoParams == [project |-> JNull, focus |-> JNull, resume |-> JNull]

\* The URL syncUrl pushes (opts.projectId, opts.focusId undefined when not given).
syncUrl(page, projectId, focusId) ==
    IF page = "splunk-detail" /\ Truthy(projectId)
    THEN [NoParams EXCEPT !.project = projectId]
    ELSE IF page = "focus-area" /\ Truthy(focusId)
    THEN [NoParams EXCEPT !.focus = focusId]
    ELSE IF page = "resume" THEN [NoParams EXCEPT !.resume = JStr(<<"1">>)]
    ELSE NoParams

\* window.history.pushState from entry at: the entries after it are dropped.
pushState(h, at, url) == Append(SubSeq(h, 1, at), url)

\* A detail page keeps its expanded image while it stays mounted.
DetailPages == {"splunk-detail", "focus-area"}

Rendered ==
    expandedImage' = IF currentPage' = currentPage THEN expandedImage ELSE JNull

\* The navigation helpers, called with the history at entry at.
navigateToDetail(projectId, at) ==
    /\ at + 1 <= MaxHistory
    /\ currentProjectId' = projectId
    /\ currentFocusAreaId' = JStr(<<>>)
    /\ currentPage' = "splunk-detail"
    /\ history' = pushState(history, at, syncUrl("splunk-detail", projectId, Undefined))
    /\ histPos' = at + 1

navigateToFocusArea(focusAreaId, at) ==
    /\ at + 1 <= MaxHistory
    /\ currentFocusAreaId' = focusAreaId
    /\ currentProjectId' = JNull
    /\ currentPage' = "focus-area"
    /\ history' = pushState(history, at, syncUrl("focus-area", Undefined, focusAreaId))
    /\ histPos' = at + 1

\* navigateToHome leaving the project id as it is.
navigateToHomeKeepsProject(at) ==
    /\ at + 1 <= MaxHistory
    /\ currentPage' = "home"
    /\ history' = pushState(history, at, syncUrl("home", Undefined, Undefined))
    /\ histPos' = at + 1
    /\ UNCHANGED <<currentProjectId, currentFocusAreaId>>

navigateToHome(at) ==
    /\ at + 1 <= MaxHistory
    /\ currentProjectId' = JNull
    /\ currentPage' = "home"
    /\ history' = pushState(history, at, syncUrl("home", Undefined, Undefined))
    /\ histPos' = at + 1
    /\ UNCHANGED currentFocusAreaId

navigateToResume(at) ==
    /\ at + 1 <= MaxHistory
    /\ currentPage' = "resume"
    /\ history' = pushState(history, at, syncUrl("resume", Undefined, Undefined))
    /\ histPos' = at + 1
    /\ UNCHANGED <<currentProjectId, currentFocusAreaId>>

\* applyUrlState with the browser at entry at of the history.
applyUrlState(at) ==
    LET params == history[at]
    IN  IF Truthy(params.project) THEN navigateToDetail(params.project, at)
        ELSE IF Truthy(params.focus) THEN navigateToFocusArea(params.focus, at)
        ELSE /\ currentProjectId' = JNull
             /\ currentFocusAreaId' = JStr(<<>>)
             /\ currentPage' = IF params.resume = JStr(<<"1">>) THEN "resume" ELSE "home"
             /\ histPos' = at
             /\ UNCHANGED history

\* The ids the pages pass to the helpers: of a project, of a project whose row
\* has no id, of a focus area.
ProjectIds == {JStr(<<"a">>), JStr(<<>>)}
FocusAreaIds == {JStr(<<"f">>)}

\* The URLs the site is opened with.
InitialUrls ==
    [project : {JNull, JStr(<<>>), JStr(<<"a">>)},
     focus : {JNull, JStr(<<"f">>)},
     resume : {JNull, JStr(<<"1">>), JStr(<<"0">>)}]

AppInit ==
    /\ currentPage = "home"
    /\ currentFocusAreaId = JStr(<<>>)
    /\ currentProjectId = JNull
    /\ history \in {<<url>> : url \in InitialUrls}
    /\ histPos = 1
    /\ expandedImage = JNull
    /\ mounted = FALSE
    /\ event = [type |-> "none"]
    /\ TokIdle
    /\ ParseIdle
    /\ BuildIdle
    /\ CoerceIdle
    /\ LookupIdle

\* The effects of App run after its first render: applyUrlState().
Load ==
    /\ ~mounted
    /\ mounted' = TRUE
    /\ event' = [type |-> "load"]
    /\ applyUrlState(histPos)
    /\ Rendered
    /\ UNCHANGED <<tokVars, parseVars, buildVars, coerceVars, lookupVars>>

\* Back or forward: the browser moves to another entry and fires popstate.
PopState ==
    /\ mounted
    /\ \E at \in 1..Len(history) :
          /\ at # histPos
          /\ applyUrlState(at)
    /\ event' = [type |-> "popstate"]
    /\ Rendered
    /\ UNCHANGED <<mounted, tokVars, parseVars, buildVars, coerceVars, lookupVars>>

\* A click on a project, a focus area, the home link or the resume link.
Click ==
    /\ mounted
    /\ \/ \E id \in ProjectIds : navigateToDetail(id, histPos)
       \/ \E id \in FocusAreaIds : navigateToFocusArea(id, histPos)
       \/ navigateToHome(histPos)
       \/ navigateToResume(histPos)
    /\ event' = [type |-> "click"]
    /\ Rendered
    /\ UNCHANGED <<mounted, tokVars, parseVars, buildVars, coerceVars, lookupVars>>

\* setExpandedImage(section.image) on a detail page, and the click that closes it.
ExpandImage ==
    /\ mounted
    /\ currentPage \in DetailPages
    /\ expandedImage = JNull
    /\ expandedImage' = JStr(<<"i">>)
    /\ event' = [type |-> "expand"]
    /\ UNCHANGED <<currentPage, currentFocusAreaId, currentProjectId, history, histPos,
                   mounted, tokVars, parseVars, buildVars, coerceVars, lookupVars>>

CloseImage ==
    /\ mounted
    /\ Truthy(expandedImage)
    /\ expandedImage' = JNull
    /\ event' = [type |-> "close"]
    /\ UNCHANGED <<currentPage, currentFocusAreaId, currentProjectId, history, histPos,
                   mounted, tokVars, parseVars, buildVars, coerceVars, lookupVars>>

BackKeys == {"Backspace", "Delete"}
Keys == BackKeys \cup {"Escape", "Enter"}

\* A keydown event on window: the handler of App runs, then the handler of the
\* detail page that is mounted.  App calls navigateToHome on a back key unless
\* the target is an input; the detail page closes its expanded image on Escape
\* or a back key, and with no image expanded calls onBack (navigateToHome) on
\* a back key.
KeyDown ==
    /\ mounted
    /\ \E key \in Keys, isTyping \in BOOLEAN :
          LET byApp == ~isTyping /\ key \in BackKeys
              onDetail == currentPage \in DetailPages
              closes == onDetail /\ key \in BackKeys \cup {"Escape"} /\ Truthy(expandedImage)
              byDetail == onDetail /\ key \in BackKeys /\ ~Truthy(expandedImage)
          IN  /\ event' = [type |-> "keydown", key |-> key, isTyping |-> isTyping]
              /\ IF byApp /\ byDetail
                 THEN /\ histPos + 2 <= MaxHistory
                      /\ currentProjectId' = JNull
                      /\ currentPage' = "home"
                      /\ history' = pushState(pushState(history, histPos, NoParams),
                                              histPos + 1, NoParams)
                      /\ histPos' = histPos + 2
                      /\ UNCHANGED currentFocusAreaId
                      /\ expandedImage' = JNull
                 ELSE IF byApp \/ byDetail
                 THEN /\ navigateToHome(histPos)
                      /\ Rendered
                 ELSE /\ expandedImage' = IF closes THEN JNull ELSE expandedImage
                      /\ UNCHANGED <<currentPage, currentFocusAreaId, currentProjectId,
                                     history, histPos>>
    /\ UNCHANGED <<mounted, tokVars, parseVars, buildVars, coerceVars, lookupVars>>

AppNext == Load \/ PopState \/ Click \/ ExpandImage \/ CloseImage \/ KeyDown

SpecApp == AppInit /\ [][AppNext]_vars

-----------------------------------------------------------------------------
(* Routing. *)

\* The page the URL parameters name is the page shown after the step.
ShowsPageOf(params) ==
    IF Truthy(params.project)
    THEN currentPage' = "splunk-detail" /\ currentProjectId' = params.project
    ELSE IF Truthy(params.focus)
    THEN currentPage' = "focus-area" /\ currentFocusAreaId' = params.focus
    ELSE IF params.resume = JStr(<<"1">>) THEN currentPage' = "resume"
    ELSE currentPage' = "home"

\* The step is applyUrlState on load (at the current entry) or on back/forward
\* (at the entry the browser has moved to): it shows the page of that entry
\* and leaves the entries of the history as they are.
AppliesUrlState ==
    event'.type \in {"load", "popstate"} =>
        \E at \in 1..Len(history) :
            /\ event'.type = "load" => at = histPos
            /\ event'.type = "popstate" => at # histPos
            /\ ShowsPageOf(history[at])
            /\ histPos' = at
            /\ history' = history

\* C25: on load and on every back/forward event App shows the page named by
\* the URL parameters (a non-empty project parameter the detail page of that
\* id, otherwise a non-empty focus parameter that focus-area page, otherwise
\* resume=1 the resume page, otherwise the home page), and the step does not
\* change the browser history it is reading.
C25_UrlStateAppliedHistoryUnchanged == [][AppliesUrlState]_vars

\* C26: while an image is expanded on the case-study or focus-area page, a
\* keydown of Escape, Backspace or Delete closes the image and does not
\* navigate away from the page; Backspace or Delete navigates back to the
\* portfolio only when no image is expanded.
ClosesWithoutNavigating ==
    (/\ event'.type = "keydown"
     /\ currentPage \in DetailPages
     /\ event'.key \in BackKeys \cup {"Escape"}
     /\ Truthy(expandedImage)) =>
        /\ expandedImage' = JNull
        /\ currentPage' = currentPage
        /\ history' = history
        /\ histPos' = histPos

C26_ExpandedImageCapturesKeys == [][ClosesWithoutNavigating]_vars

\* C30: after any sequence of navigation actions, on the detail page the
\* current project id is not null, and on the home page it is null.
C30_ProjectIdMatchesPage ==
    mounted =>
        /\ currentPage = "splunk-detail" => currentProjectId # JNull
        /\ currentPage = "home" => currentProjectId = JNull

\* From the detail page of project a the resume page was opened, and then the
\* browser went back to the first entry, the home page: the project id, kept
\* on the resume page, is null again.
C30_Witness ==
    /\ event.type = "popstate"
    /\ currentPage = "home"
    /\ currentProjectId = JNull
    /\ Len(history) = 3
    /\ histPos = 1
    /\ history[2].project = JStr(<<"a">>)
    /\ history[3].resume = JStr(<<"1">>)

====
